---- MODULE Spec2Model ----
(***************************************************************************)
(* A model of the Python implementation of MistQL (src/py/mistql): the     *)
(* runtime value model and the garden wall (runtime_value.py,              *)
(* gardenwall.py), the lowering of parse trees (parse.py), the scope       *)
(* stack (stack.py), the evaluator (execute.py), the built-ins             *)
(* (builtins.py) and the embedding instance (instance.py).                 *)
(*                                                                         *)
(* Python values are records tagged with `py`; runtime values are records  *)
(* tagged with `type`, as RuntimeValue is.  A Python float is the record   *)
(*   [special, big, whole, half]  =  big * 2^53 + whole + half / 2         *)
(* (special is "finite", "nan", "inf" or "-inf"), so that integers beyond  *)
(* 2^53 keep the precision a double has.                                   *)
(*                                                                         *)
(* The specifications share the variables:                                 *)
(*   Spec         - a MistQLInstance is built and answers one query        *)
(*   SpecCache    - one MistQLInstance answers query after query           *)
(*   SpecSort, SpecValues, SpecBuiltins - as Spec, on the queries and      *)
(*                  inputs of one family of built-ins each                 *)
(*   SpecWall     - a host value crosses the garden wall and comes back    *)
(*   SpecLazy     - operations on one LazyRuntimeValue                     *)
(*   SpecStack    - pushes, returns and lookups on one scope stack         *)
(***************************************************************************)
EXTENDS Integers, Sequences, FiniteSets, TLC

VARIABLES
    inst_extras,  \* MistQLInstance.extras: <<[key, value], ...>>
    inst_lazy,    \* MistQLInstance.lazy
    parse_cache,  \* the lru_cache of parse: <<[query, ast], ...>>, most recent first
    q_query,      \* the query string of the last (or pending) call of query()
    q_data,       \* its host input value
    q_done,       \* whether that call has returned
    q_outcome,    \* what it returned or raised, and the host calls it made
    parse_hit,    \* whether that call's AST came from the parse cache
    wall_in,      \* the host value handed to input_garden_wall
    wall_lazy,    \* the `lazy` argument of that call
    wall_done,    \* whether the value has crossed the wall
    wall_rv,      \* the runtime value input_garden_wall returned
    wall_out,     \* what output_garden_wall returned for wall_rv
    lz_host,      \* the host Array/Object a LazyRuntimeValue was made of
    lz_value,     \* its _value field: not yet produced, or the produced children
    lz_subvalue_cache,  \* its _subvalue_cache: key or index -> child
    lz_converted, \* how many children RuntimeValue.of has converted for it
    lz_op,        \* the last operation applied to it
    lz_result,    \* what that operation returned
    lz_eager,     \* what it returns on the eager value of the same host value
    st_stack,     \* the scope stack the running evaluation holds
    st_callers,   \* the stacks of the callers that pushed a focus, outermost first
    st_lookup,    \* the arguments of the last find_in_stack
    st_found      \* what it returned

inst_vars == <<inst_extras, inst_lazy, parse_cache, q_query, q_data, q_done,
              q_outcome, parse_hit>>
wall_vars == <<wall_in, wall_lazy, wall_done, wall_rv, wall_out>>
lazy_vars == <<lz_host, lz_value, lz_subvalue_cache, lz_converted, lz_op, lz_result,
              lz_eager>>
stack_vars == <<st_stack, st_callers, st_lookup, st_found>>
vars == <<inst_vars, wall_vars, lazy_vars, stack_vars>>

(***************************************************************************)
(* Bounds of the model                                                     *)
(***************************************************************************)
MaxLen == 2       \* longest generated host list / dict
MaxConverted == 5 \* conversions of children followed for one lazy value
MaxItems == 3     \* longest list given to sort, sortby and groupby
MaxDepth == 5     \* deepest scope stack followed (the initial one has three frames)

(***************************************************************************)
(* Python values                                                           *)
(***************************************************************************)
Number(big, whole, half) ==
    [special |-> "finite", big |-> big, whole |-> whole, half |-> half]
NonFinite(s) == [special |-> s, big |-> 0, whole |-> 0, half |-> 0]

PyNone == [py |-> "NoneType", v |-> "None"]
PyBool(b) == [py |-> "bool", v |-> b]
PyInt(n) == [py |-> "int", v |-> Number(0, n, 0)]
PyBigInt(k) == [py |-> "int", v |-> Number(1, k, 0)]      \* 2^53 + k, k >= 0
PyFloat(x) == [py |-> "float", v |-> x]
PyStr(s) == [py |-> "str", v |-> s]
PyList(items) == [py |-> "list", v |-> items]
PyDict(entries) == [py |-> "dict", v |-> entries]   \* <<[key, value], ...>>, insertion order

Range(s) == {s[i] : i \in DOMAIN s}
SeqsUpTo(S, n) == UNION {[1..k -> S] : k \in 0..n}

isnan(x) == x.special = "nan"
\* Faulty variant of isfinite: an infinity counts as finite.
isfinite_only_nan(x) == x.special # "nan"
isfinite(x) == x.special = "finite"

\* float(value) for a Python int: exact up to 2^53; above, the nearest double
\* (spacing 2 in [2^53, 2^54), ties to the even mantissa).
RoundTiesToMultipleOf4(k) == IF k % 4 = 1 THEN k - 1 ELSE k + 1
float_of_int(n) ==
    IF n.big = 0 \/ n.whole % 2 = 0 THEN n
    ELSE Number(n.big, RoundTiesToMultipleOf4(n.whole), 0)

DictKeys(entries) == [i \in DOMAIN entries |-> entries[i].key]
DictHas(entries, key) == \E i \in DOMAIN entries : entries[i].key = key
DictGet(entries, key) ==
    entries[CHOOSE i \in DOMAIN entries : entries[i].key = key].value

\* Python's == on the host values the wall handles.
IsPyNumeric(a) == a.py \in {"bool", "int", "float"}
PyNumber(a) ==
    IF a.py = "bool" THEN Number(0, IF a.v THEN 1 ELSE 0, 0) ELSE a.v
RECURSIVE py_eq(_, _)
py_eq(a, b) ==
    IF IsPyNumeric(a) /\ IsPyNumeric(b)
    THEN ~isnan(PyNumber(a)) /\ PyNumber(a) = PyNumber(b)
    ELSE IF a.py # b.py THEN FALSE
    ELSE CASE a.py = "list" ->
                /\ Len(a.v) = Len(b.v)
                /\ \A i \in DOMAIN a.v : py_eq(a.v[i], b.v[i])
           [] a.py = "dict" ->
                /\ Len(a.v) = Len(b.v)
                /\ \A i \in DOMAIN a.v :
                     /\ DictHas(b.v, a.v[i].key)
                     /\ py_eq(a.v[i].value, DictGet(b.v, a.v[i].key))
           [] OTHER -> a.v = b.v

(***************************************************************************)
(* Runtime values (runtime_value.py)                                       *)
(***************************************************************************)
RuntimeValue(type, value) == [type |-> type, value |-> value]
LazyRuntimeValue(type, python_value) ==
    [type |-> type, lazy |-> TRUE, _python_value |-> python_value]

Null == RuntimeValue("null", "None")
IsRuntimeValue(x) == "type" \in DOMAIN x
is_lazy(rv) == "lazy" \in DOMAIN rv

RECURSIVE RuntimeValue_of(_, _)
RuntimeValue_of(value, lazy) ==
    IF IsRuntimeValue(value) THEN value
    ELSE CASE value.py = "NoneType" -> Null
           [] value.py = "bool" -> RuntimeValue("boolean", value.v)
           [] value.py = "int" -> RuntimeValue("number", float_of_int(value.v))
           [] value.py = "float" ->
                IF isnan(value.v) \/ ~isfinite(value.v) THEN Null
                ELSE RuntimeValue("number", value.v)
           [] value.py = "str" -> RuntimeValue("string", value.v)
           [] value.py \in {"list", "tuple"} ->
                IF ~lazy
                THEN RuntimeValue("array",
                        [i \in DOMAIN value.v |-> RuntimeValue_of(value.v[i], lazy)])
                ELSE LazyRuntimeValue("array", value)
           [] value.py = "dict" ->
                IF ~lazy
                THEN RuntimeValue("object",
                        [i \in DOMAIN value.v |->
                            [key |-> value.v[i].key,
                             value |-> RuntimeValue_of(value.v[i].value, FALSE)]])
                ELSE LazyRuntimeValue("object", value)

\* The producers RuntimeValue.of hands to a LazyRuntimeValue.
producer(type, value) ==
    IF type = "array"
    THEN [i \in DOMAIN value.v |-> RuntimeValue_of(value.v[i], TRUE)]
    ELSE [i \in DOMAIN value.v |->
            [key |-> value.v[i].key,
             value |-> RuntimeValue_of(value.v[i].value, TRUE)]]

\* The `value` attribute: a plain field, or LazyRuntimeValue's property.
Value(rv) ==
    IF is_lazy(rv) THEN producer(rv.type, rv._python_value) ELSE rv.value

ConvertibleTypes == {"null", "boolean", "number", "string", "array", "object"}
RECURSIVE to_python_raises(_)
to_python_raises(rv) ==
    CASE rv.type = "array" -> \E i \in DOMAIN Value(rv) : to_python_raises(Value(rv)[i])
      [] rv.type = "object" ->
            \E i \in DOMAIN Value(rv) : to_python_raises(Value(rv)[i].value)
      [] OTHER -> rv.type \notin ConvertibleTypes

RECURSIVE to_python(_)
to_python(rv) ==
    CASE rv.type = "null" -> PyNone
      [] rv.type = "boolean" -> PyBool(rv.value)
      [] rv.type = "number" -> PyFloat(rv.value)
      [] rv.type = "string" -> PyStr(rv.value)
      [] rv.type = "array" ->
            PyList([i \in DOMAIN Value(rv) |-> to_python(Value(rv)[i])])
      [] rv.type = "object" ->
            PyDict([i \in DOMAIN Value(rv) |->
                      [key |-> Value(rv)[i].key,
                       value |-> to_python(Value(rv)[i].value)]])

(***************************************************************************)
(* The garden wall (gardenwall.py)                                         *)
(***************************************************************************)
input_garden_wall(data, lazy) == RuntimeValue_of(data, lazy)
output_garden_wall(data) == to_python(data)

(***************************************************************************)
(* More of RuntimeValue (runtime_value.py)                                 *)
(***************************************************************************)
Num(n) == RuntimeValue("number", Number(0, n, 0))
Str(s) == RuntimeValue("string", s)
Bool(b) == RuntimeValue("boolean", b)
Array(items) == RuntimeValue("array", items)
Object(entries) == RuntimeValue("object", entries)

wrap_function_def(definition) == RuntimeValue("function", definition)

truthy(rv) ==
    CASE rv.type = "null" -> FALSE
      [] rv.type = "boolean" -> rv.value
      [] rv.type = "number" -> rv.value # Number(0, 0, 0)
      [] rv.type = "string" -> rv.value # ""
      [] rv.type = "array" -> Len(Value(rv)) > 0
      [] rv.type = "object" -> Len(Value(rv)) > 0
      [] rv.type = "function" -> TRUE
      [] rv.type = "regex" -> TRUE

\* RuntimeValue.keys / LazyRuntimeValue.keys
keys_of(rv) ==
    IF rv.type = "object"
    THEN IF is_lazy(rv) THEN DictKeys(rv._python_value.v) ELSE DictKeys(rv.value)
    ELSE <<>>

\* RuntimeValue.access / LazyRuntimeValue.access
access(rv, string) ==
    IF is_lazy(rv)
    THEN IF rv.type = "object" /\ DictHas(rv._python_value.v, string)
         THEN RuntimeValue_of(DictGet(rv._python_value.v, string), TRUE)
         ELSE Null
    ELSE IF rv.type = "object" /\ DictHas(rv.value, string)
         THEN DictGet(rv.value, string)
         ELSE Null

\* Faulty variant of eq: two objects are compared entry by entry, in the order
\* of their keys.
RECURSIVE eq_ordered(_, _)
eq_ordered(a, b) ==
    IF a.type # b.type THEN FALSE
    ELSE CASE a.type = "null" -> TRUE
           [] a.type \in {"boolean", "number", "string"} -> a.value = b.value
           [] a.type = "array" ->
                /\ Len(Value(a)) = Len(Value(b))
                /\ \A i \in DOMAIN Value(a) : eq_ordered(Value(a)[i], Value(b)[i])
           [] a.type = "object" ->
                /\ Len(Value(a)) = Len(Value(b))
                /\ \A i \in DOMAIN Value(a) :
                     /\ Value(a)[i].key = Value(b)[i].key
                     /\ eq_ordered(Value(a)[i].value, Value(b)[i].value)
           [] a.type = "function" -> a.value = b.value
           [] a.type = "regex" -> a.value = b.value /\ a.modifiers = b.modifiers

RECURSIVE eq(_, _)
eq(a, b) ==
    IF a.type # b.type THEN FALSE
    ELSE CASE a.type = "null" -> TRUE
           [] a.type \in {"boolean", "number", "string"} -> a.value = b.value
           [] a.type = "array" ->
                /\ Len(Value(a)) = Len(Value(b))
                /\ \A i \in DOMAIN Value(a) : eq(Value(a)[i], Value(b)[i])
           [] a.type = "object" ->
                /\ Len(Value(a)) = Len(Value(b))
                /\ \A i \in DOMAIN Value(a) :
                     /\ DictHas(Value(b), Value(a)[i].key)
                     /\ eq(Value(a)[i].value, DictGet(Value(b), Value(a)[i].key))
           [] a.type = "function" -> a.value = b.value
           [] a.type = "regex" -> a.value = b.value /\ a.modifiers = b.modifiers

(***************************************************************************)
(* Expressions (expression.py)                                             *)
(***************************************************************************)
FnExpression(fn, args) == [type |-> "fncall", fn |-> fn, args |-> args]
\* RefExpression.__init__ takes the name alone, and nothing in parse.py sets
\* the `absolute` attribute execute reads: it is never true.
RefExpression(name) == [type |-> "reference", name |-> name, absolute |-> FALSE]
ValueExpression(value) == [type |-> "value", value |-> value]
ArrayExpression(items) == [type |-> "array", items |-> items]
ObjectExpression(entries) == [type |-> "object", entries |-> entries]
PipeExpression(stages) == [type |-> "pipe", stages |-> stages]

(***************************************************************************)
(* Lowering of the parse tree (parse.py)                                   *)
(***************************************************************************)
\* What the parser hands over: lark Trees and Tokens.
Tree(data, children) == [data |-> data, children |-> children]
Token(type, value) == [token |-> type, value |-> value]
IsToken(node) == "token" \in DOMAIN node

function_mappings ==
    [dot |-> ".", neg |-> "-/unary", not |-> "!/unary", gt |-> ">", lt |-> "<",
     gte |-> ">=", lte |-> "<=", eq |-> "==", neq |-> "!=", match |-> "=~",
     plus |-> "+", minus |-> "-", mul |-> "*", div |-> "/", mod |-> "%",
     and |-> "&&", or |-> "||"]

\* float(text) and json.loads(text) on the literals the model's queries use.
float_of_text(text) ==
    CASE text = "0" -> Number(0, 0, 0)
      [] text = "1" -> Number(0, 1, 0)
      [] text = "2" -> Number(0, 2, 0)
      [] text = "3" -> Number(0, 3, 0)
      [] text = "5" -> Number(0, 5, 0)
      [] text = "0.5" -> Number(0, 0, 1)
      [] text = "1.5" -> Number(0, 1, 1)
json_loads(text) == SubSeq(text, 2, Len(text) - 1)

ValueExpression_of(value) == ValueExpression(RuntimeValue_of(value, FALSE))

process_lark_token(lark_node) ==
    CASE lark_node.token = "NUMBER" ->
            ValueExpression_of(PyFloat(float_of_text(lark_node.value)))
      [] lark_node.token = "ESCAPED_STRING" ->
            ValueExpression_of(PyStr(json_loads(lark_node.value)))
      [] lark_node.token = "TRUE" -> ValueExpression_of(PyBool(TRUE))
      [] lark_node.token = "FALSE" -> ValueExpression_of(PyBool(FALSE))
      [] lark_node.token = "NULL" -> ValueExpression_of(PyNone)
      [] lark_node.token = "CNAME" -> RefExpression(lark_node.value)
      [] lark_node.token = "AT" -> RefExpression("@")
      [] lark_node.token = "DOLLAR" -> RefExpression("$")

\* The loop of the "index" branch over the children of index_innards:
\* st = [args, prev_was_token].
RECURSIVE from_lark(_)
RECURSIVE index_innards(_, _, _)
index_innards(children, i, st) ==
    IF i > Len(children) THEN st
    ELSE LET child == children[i] IN
         IF IsToken(child) /\ child.value = ":"
         THEN index_innards(children, i + 1,
                [args |-> IF st.prev_was_token
                          THEN Append(st.args, ValueExpression_of(PyNone))
                          ELSE st.args,
                 prev_was_token |-> TRUE])
         ELSE index_innards(children, i + 1,
                [args |-> Append(st.args, from_lark(child)),
                 prev_was_token |-> FALSE])

\* Object entries: a later duplicate key replaces the value, keeping the
\* position of the first (dict assignment).
DictSet(entries, key, value) ==
    IF DictHas(entries, key)
    THEN [i \in DOMAIN entries |->
            IF entries[i].key = key THEN [key |-> key, value |-> value] ELSE entries[i]]
    ELSE Append(entries, [key |-> key, value |-> value])

RECURSIVE object_entries(_, _, _)
object_entries(children, i, obj) ==
    IF i > Len(children) THEN obj
    ELSE LET child == children[i]
             k == from_lark(child.children[1])
             key == IF k.type = "value" THEN k.value.value ELSE k.name
         IN object_entries(children, i + 1,
                           DictSet(obj, key, from_lark(child.children[2])))

process_lark_tree(lark_node) ==
    CASE lark_node.data = "array" ->
            ArrayExpression([i \in DOMAIN lark_node.children |->
                               from_lark(lark_node.children[i])])
      [] lark_node.data = "object" ->
            ObjectExpression(object_entries(lark_node.children, 1, <<>>))
      [] lark_node.data = "pipe" ->
            PipeExpression([i \in DOMAIN lark_node.children |->
                              from_lark(lark_node.children[i])])
      [] lark_node.data = "fncall" ->
            FnExpression(from_lark(lark_node.children[1]),
                         [i \in 1..(Len(lark_node.children) - 1) |->
                            from_lark(lark_node.children[i + 1])])
      [] lark_node.data \in DOMAIN function_mappings ->
            FnExpression(RefExpression(function_mappings[lark_node.data]),
                         [i \in DOMAIN lark_node.children |->
                            from_lark(lark_node.children[i])])
      [] lark_node.data = "index" ->
            LET base == lark_node.children[1]
                indexing == lark_node.children[2]
                innards == indexing.children[1]
                st == index_innards(innards.children, 1,
                                    [args |-> <<>>, prev_was_token |-> TRUE])
                fnexp_args == IF st.prev_was_token
                              THEN Append(st.args, ValueExpression_of(PyNone))
                              ELSE st.args
            IN FnExpression(RefExpression("index"),
                            Append(fnexp_args, from_lark(base)))

from_lark(lark_node) ==
    IF IsToken(lark_node) THEN process_lark_token(lark_node)
    ELSE process_lark_tree(lark_node)

(***************************************************************************)
(* Outcomes of a call: a value or a raised exception, and the world as the *)
(* call left it.  The world w is                                           *)
(*   calls  - the host callables invoked so far, with their arguments      *)
(*   writes - the in-place changes made to argument lists of AST nodes     *)
(***************************************************************************)
NewWorld == [calls |-> <<>>, writes |-> <<>>]
Ok(value, w) == [ok |-> TRUE, error |-> "", value |-> value, w |-> w]
Raise(error, w) == [ok |-> FALSE, error |-> error, value |-> Null, w |-> w]

(***************************************************************************)
(* Host callables and RuntimeValue.from_py_func (runtime_value.py)         *)
(***************************************************************************)
\* A Python function as inspect.getfullargspec sees it, and what it returns.
PyFunc(name, args, defaults, varargs, kwonlyargs) ==
    [name |-> name, args |-> args, defaults |-> defaults, varargs |-> varargs,
     kwonlyargs |-> kwonlyargs]

\* py_func(*py_args): the functions of the model return their first argument
\* ("first..."), the number of their arguments ("count...") or NaN.
py_call(py_func, py_args) ==
    CASE py_func.name \in {"first", "first2", "first_opt", "tick"} ->
            IF Len(py_args) > 0 THEN py_args[1] ELSE PyNone
      [] py_func.name \in {"count_all", "count_rest"} -> PyInt(Len(py_args))
      [] OTHER -> PyFloat(NonFinite("nan"))

\* Faulty variant of max_arity_of: one argument too many is let through.
max_arity_one_more(spec) ==
    IF spec.varargs THEN [none |-> TRUE, n |-> 0] ELSE [none |-> FALSE, n |-> spec.args + 1]
max_arity_of(spec) ==
    IF spec.varargs THEN [none |-> TRUE, n |-> 0] ELSE [none |-> FALSE, n |-> spec.args]
min_arity_of(spec) == spec.args - spec.defaults

\* Faulty variant of from_py_func: keyword-only parameters are not looked at.
from_py_func_kwonly_allowed(py_func) ==
    IF ~py_func.varargs /\ py_func.args = 0 THEN Raise("ValueError", NewWorld)
    ELSE Ok(wrap_function_def([kind |-> "py_func", py_func |-> py_func,
                               min_arity |-> py_func.args - py_func.defaults,
                               max_arity |-> [none |-> py_func.varargs,
                                              n |-> py_func.args]]),
            NewWorld)

\* The part of from_py_func that runs when the callable is wrapped.
from_py_func(py_func) ==
    LET min_arity == min_arity_of(py_func)
        max_arity == max_arity_of(py_func)
    IN IF ~max_arity.none /\ max_arity.n = 0 THEN Raise("ValueError", NewWorld)
       ELSE IF py_func.kwonlyargs > 0 THEN Raise("ValueError", NewWorld)
       ELSE Ok(wrap_function_def([kind |-> "py_func", py_func |-> py_func,
                                  min_arity |-> min_arity, max_arity |-> max_arity]),
               NewWorld)

(***************************************************************************)
(* The stack (stack.py)                                                    *)
(***************************************************************************)
make_stack_entry_from_runtime_value(value) ==
    LET ks == Range(keys_of(value))
    IN [name \in {"@"} \cup ks |-> IF name \in ks THEN access(value, name) ELSE value]

\* stack.copy(): a new list; `same_list` tells whether a change to it is a
\* change to the list the caller holds.
\* (stack_alias is the faulty variant without the copy.)
stack_alias(stack) == [frames |-> stack, same_list |-> TRUE]
stack_copy(stack) == [frames |-> stack, same_list |-> FALSE]
\* new_stack.append(new_stackframe)
stack_append(stack, frame) == Append(stack, frame)

add_runtime_value_to_stack(value, stack) ==
    stack_append(stack_copy(stack).frames, make_stack_entry_from_runtime_value(value))
\* The list the caller of add_runtime_value_to_stack holds, after the call.
stack_after_push(value, stack) ==
    IF stack_copy(stack).same_list THEN add_runtime_value_to_stack(value, stack)
    ELSE stack

\* The registry of builtins.py, in the order of the dict.
builtins ==
    <<".", "-/unary", "!/unary", "+", "-", "*", "/", "%", "==", "!=", ">", ">=",
      "<", "<=", "&&", "||", "=~", "apply", "count", "keys", "entries",
      "fromentries", "match", "split", "values", "groupby", "float", "map",
      "filter", "reduce", "find", "index", "string", "sort", "sortby",
      "mapvalues", "mapkeys", "filtervalues", "filterkeys", "if", "reverse",
      "regex", "log", "stringjoin", "withindices", "replace", "summarize",
      "sequence">>

BuiltinFunction(name) == wrap_function_def([kind |-> "builtin", name |-> name])

\* Every call of from_py_func makes a new closure `definition`, and Python
\* functions are equal only to themselves: `closure` tells the closures of
\* one root frame apart.
Closure(wrapped, i) ==
    IF ~wrapped.ok THEN wrapped
    ELSE Ok(wrap_function_def([kind |-> "py_func", closure |-> i,
                               py_func |-> wrapped.value.value.py_func,
                               min_arity |-> wrapped.value.value.min_arity,
                               max_arity |-> wrapped.value.value.max_arity]),
            wrapped.w)

\* The loop of build_initial_stack over extras: the first callable that
\* cannot be wrapped raises.
ExtrasWrapped(extras) ==
    [i \in DOMAIN extras |->
        IF IsRuntimeValue(extras[i].value) THEN Ok(extras[i].value, NewWorld)
        ELSE Closure(from_py_func(extras[i].value), i)]

\* dict.update(other): a key already there keeps its place and takes the new
\* value, a new key goes to the end; the last value given for a key wins.
\* Faulty variant of dict_update: a key already there keeps its value.
dict_update_keep(entries, other) ==
    LET positions == [i \in DOMAIN other |-> i]
        first_new(i) == /\ ~DictHas(entries, other[i].key)
                        /\ \A j \in 1..(i - 1) : other[j].key # other[i].key
        added == SelectSeq(positions, first_new)
    IN entries \o [i \in DOMAIN added |-> other[added[i]]]
dict_update(entries, other) ==
    LET last(key) == other[CHOOSE i \in DOMAIN other :
                              /\ other[i].key = key
                              /\ \A j \in DOMAIN other : other[j].key = key => j <= i].value
        positions == [i \in DOMAIN other |-> i]
        first_new(i) == /\ ~DictHas(entries, other[i].key)
                        /\ \A j \in 1..(i - 1) : other[j].key # other[i].key
        added == SelectSeq(positions, first_new)
    IN [i \in DOMAIN entries |->
          IF DictHas(other, entries[i].key)
          THEN [key |-> entries[i].key, value |-> last(entries[i].key)]
          ELSE entries[i]]
       \o [i \in DOMAIN added |->
             [key |-> other[added[i]].key, value |-> last(other[added[i]].key)]]

build_initial_stack(data, builtin_names, extras) ==
    LET wrapped == ExtrasWrapped(extras) IN
    IF \E i \in DOMAIN extras : ~wrapped[i].ok
    THEN [ok |-> FALSE, error |-> "ValueError", stack |-> <<>>]
    ELSE LET functions_entries ==
                 dict_update(
                     [i \in DOMAIN builtin_names |->
                        [key |-> builtin_names[i],
                         value |-> BuiltinFunction(builtin_names[i])]],
                     [i \in DOMAIN extras |->
                        [key |-> extras[i].key, value |-> wrapped[i].value]])
             functions_frame ==
                 [name \in Range(DictKeys(functions_entries)) |->
                    DictGet(functions_entries, name)]
             dollar_var_dict ==
                 dict_update(<<[key |-> "@", value |-> data]>>, functions_entries)
         IN [ok |-> TRUE, error |-> "",
             stack |-> <<functions_frame,
                         [name \in {"$"} |-> Object(dollar_var_dict)],
                         make_stack_entry_from_runtime_value(data)>>]

\* Faulty variant of find_in_stack: the frames are scanned outermost first.
find_in_stack_outermost(stack, name, absolute) ==
    LET searched == IF absolute THEN SubSeq(stack, 1, 1) ELSE stack
        hits == {i \in DOMAIN searched : name \in DOMAIN searched[i]}
    IN IF hits = {} THEN [ok |-> FALSE, value |-> Null]
       ELSE [ok |-> TRUE,
             value |-> searched[CHOOSE i \in hits : \A j \in hits : i <= j][name]]
\* A miss raises MistQLReferenceError: ok is FALSE.
find_in_stack(stack, name, absolute) ==
    LET searched == IF absolute THEN SubSeq(stack, 1, 1) ELSE stack
        hits == {i \in DOMAIN searched : name \in DOMAIN searched[i]}
    IN IF hits = {} THEN [ok |-> FALSE, value |-> Null]
       ELSE [ok |-> TRUE,
             value |-> searched[CHOOSE i \in hits : \A j \in hits : j <= i][name]]

(***************************************************************************)
(* Text of values: to_json, to_string, format_number (runtime_value.py)    *)
(***************************************************************************)
Digit(d) == SubSeq("0123456789", d + 1, d + 1)
RECURSIVE NatText(_)
NatText(n) == IF n < 10 THEN Digit(n) ELSE NatText(n \div 10) \o Digit(n % 10)
\* str(int(x)) / str(x) for a finite x = big * 2^53 + whole + half / 2
\* (2^53 = 9007199254740992; the model keeps whole below 8 when big = 1).
NumberText(x) ==
    IF x.big = 1 THEN "900719925474099" \o Digit(2 + x.whole)
    ELSE IF x.whole >= 0
         THEN NatText(x.whole) \o (IF x.half = 1 THEN ".5" ELSE "")
         ELSE IF x.half = 1 THEN "-" \o NatText(-x.whole - 1) \o ".5"
              ELSE "-" \o NatText(-x.whole)
format_number(value) == NumberText(value)

RECURSIVE JoinText(_, _)
JoinText(texts, sep) ==
    IF Len(texts) = 0 THEN ""
    ELSE IF Len(texts) = 1 THEN texts[1]
    ELSE texts[1] \o sep \o JoinText(Tail(texts), sep)

RECURSIVE to_json(_)
to_json(rv) ==
    CASE rv.type = "null" -> "null"
      [] rv.type = "boolean" -> IF rv.value THEN "true" ELSE "false"
      [] rv.type = "number" -> NumberText(rv.value)
      [] rv.type = "string" -> "\"" \o rv.value \o "\""
      [] rv.type = "array" ->
            "[" \o JoinText([i \in DOMAIN Value(rv) |-> to_json(Value(rv)[i])], ",") \o "]"
      [] rv.type = "object" ->
            "{" \o JoinText([i \in DOMAIN Value(rv) |->
                               "\"" \o Value(rv)[i].key \o "\":"
                               \o to_json(Value(rv)[i].value)], ",") \o "}"
\* to_json raises ValueError exactly where to_python does.
to_json_raises(rv) == to_python_raises(rv)

to_string(rv) ==
    IF rv.type = "string" THEN rv.value
    ELSE IF rv.type = "number" THEN format_number(rv.value)
    ELSE to_json(rv)
to_string_raises(rv) == rv.type \notin {"string", "number"} /\ to_json_raises(rv)

(***************************************************************************)
(* Python arithmetic, indexing and str methods the built-ins use           *)
(***************************************************************************)
Halves(x) == 2 * x.whole + x.half
FromHalves(h) == Number(0, h \div 2, h % 2)
NumAdd(x, y) == FromHalves(Halves(x) + Halves(y))
NumSub(x, y) == FromHalves(Halves(x) - Halves(y))
NumLess(x, y) == Halves(x) < Halves(y)

\* seq[i:j] of Python, 0-based bounds, negative bounds counted from the end.
SliceBound(k, n) == IF k < 0 THEN (IF k + n < 0 THEN 0 ELSE k + n)
                    ELSE IF k > n THEN n ELSE k
PySlice(s, i, j) == SubSeq(s, SliceBound(i, Len(s)) + 1, SliceBound(j, Len(s)))

\* str.find: the 1-based position of the first occurrence, 0 when absent.
StrFind(s, sub) ==
    LET hits == {i \in 1..(Len(s) - Len(sub) + 1) : SubSeq(s, i, i + Len(sub) - 1) = sub}
    IN IF hits = {} THEN 0 ELSE CHOOSE i \in hits : \A j \in hits : i <= j
\* str.replace(old, new, 1)
StrReplaceFirst(s, old, new) ==
    LET i == StrFind(s, old)
    IN IF i = 0 THEN s
       ELSE SubSeq(s, 1, i - 1) \o new \o SubSeq(s, i + Len(old), Len(s))
\* str.split(sep) for a non-empty sep
RECURSIVE StrSplit(_, _)
StrSplit(s, sep) ==
    LET i == StrFind(s, sep)
    IN IF i = 0 THEN <<s>>
       ELSE <<SubSeq(s, 1, i - 1)>> \o StrSplit(SubSeq(s, i + Len(sep), Len(s)), sep)
Chars(s) == [i \in 1..Len(s) |-> SubSeq(s, i, i)]

\* Python's order of str: by code point, character by character.  The
\* characters of the model's strings, in code point order:
CodePoints == " \"+,-.0123456789:@[]_abcdefghijklmnopqrstuvwxyz{|}"
ord(c) == StrFind(CodePoints, c)
StrLess(s, t) ==
    \E i \in 1..Len(t) :
        /\ i - 1 <= Len(s)
        /\ SubSeq(s, 1, i - 1) = SubSeq(t, 1, i - 1)
        /\ i > Len(s) \/ ord(SubSeq(s, i, i)) < ord(SubSeq(t, i, i))

(***************************************************************************)
(* Ordering: RuntimeValue.compare, comparable (runtime_value.py)           *)
(***************************************************************************)
comparable(rv) == rv.type \in {"boolean", "number", "string"}
\* compare(a, b) raises ValueError
compare_raises(a, b) == a.type # b.type \/ ~comparable(a)
\* compare(a, b) otherwise: negative, zero or positive (for Numbers twice
\* the difference, which has the sign of the difference).
BoolInt(b) == IF b THEN 1 ELSE 0
compare(a, b) ==
    CASE a.type = "boolean" -> BoolInt(a.value) - BoolInt(b.value)
      [] a.type = "number" -> Halves(a.value) - Halves(b.value)
      [] a.type = "string" ->
            BoolInt(StrLess(b.value, a.value)) - BoolInt(StrLess(a.value, b.value))

\* sorted(with_key, key=cmp_to_key(cmp)) on pairs [key, value], where cmp
\* compares the keys: list.sort is stable and asks only whether x < y, which
\* cmp_to_key answers by cmp(x, y) < 0.  An element goes behind every
\* element already placed that it is not less than.
\* (sorted_insert_before_ties is the faulty variant that goes before them.)
sorted_insert_before_ties(out, x) ==
    LET k == Cardinality({j \in DOMAIN out : compare(out[j].key, x.key) < 0})
    IN SubSeq(out, 1, k) \o <<x>> \o SubSeq(out, k + 1, Len(out))
sorted_insert(out, x) ==
    LET k == Cardinality({j \in DOMAIN out : ~(compare(x.key, out[j].key) < 0)})
    IN SubSeq(out, 1, k) \o <<x>> \o SubSeq(out, k + 1, Len(out))
RECURSIVE sorted_from(_, _, _)
sorted_from(with_key, out, i) ==
    IF i > Len(with_key) THEN out
    ELSE sorted_from(with_key, sorted_insert(out, with_key[i]), i + 1)
sorted(with_key) == sorted_from(with_key, <<>>, 1)
\* list.sort of fewer than two elements compares nothing; of two or more it
\* compares every element with another one, and the first comparison that
\* compare cannot make raises.
sorted_raises(with_key) ==
    /\ Len(with_key) >= 2
    /\ \E i, j \in DOMAIN with_key : compare_raises(with_key[i].key, with_key[j].key)

(***************************************************************************)
(* The built-ins (builtins.py)                                             *)
(***************************************************************************)
RECURSIVE execute(_, _, _)

\* The calls execute(arguments[k], stack) of a built-in, in the order in
\* which Python makes them: `order` lists the (1-based) argument positions.
\* The outcome's value is the sequence of results, in that order.
RECURSIVE execute_each(_, _, _, _, _)
execute_each(arguments, order, stack, r, i) ==
    IF i > Len(order) THEN r
    ELSE LET x == execute(arguments[order[i]], stack, r.w)
         IN IF x.ok
            THEN execute_each(arguments, order, stack,
                              Ok(Append(r.value, x.value), x.w), i + 1)
            ELSE x
execute_in_order(arguments, order, stack, w) ==
    execute_each(arguments, order, stack, Ok(<<>>, w), 1)

\* -res.value (the model does not tell -0.0 from 0.0, which are equal)
unary_minus(arguments, stack, w) ==
    IF Len(arguments) # 1 THEN Raise("Exception", w)
    ELSE LET res == execute(arguments[1], stack, w)
         IN IF ~res.ok THEN res
            ELSE IF res.value.type # "number" THEN Raise("Exception", res.w)
            ELSE Ok(RuntimeValue("number", FromHalves(-Halves(res.value.value))), res.w)

unary_not(arguments, stack, w) ==
    IF Len(arguments) # 1 THEN Raise("Exception", w)
    ELSE LET r == execute(arguments[1], stack, w)
         IN IF ~r.ok THEN r ELSE Ok(Bool(~truthy(r.value)), r.w)

\* Faulty variant of if_else: both branches are evaluated before one is chosen.
if_else_both(arguments, stack, w) ==
    IF Len(arguments) # 3 THEN Raise("Exception", w)
    ELSE LET condition == execute(arguments[1], stack, w)
             r == execute_in_order(arguments, <<2, 3>>, stack, condition.w)
         IN IF ~condition.ok THEN condition
            ELSE IF ~r.ok THEN r
            ELSE Ok(r.value[IF truthy(condition.value) THEN 2 ELSE 3], r.w)

if_else(arguments, stack, w) ==
    IF Len(arguments) # 3 THEN Raise("Exception", w)
    ELSE LET condition == execute(arguments[1], stack, w)
         IN IF ~condition.ok THEN condition
            ELSE IF truthy(condition.value)
                 THEN execute(arguments[2], stack, condition.w)
                 ELSE execute(arguments[3], stack, condition.w)

add(arguments, stack, w) ==
    IF Len(arguments) # 2 THEN Raise("Exception", w)
    ELSE LET r == execute_in_order(arguments, <<1, 2>>, stack, w)
             left == r.value[1]
             right == r.value[2]
         IN IF ~r.ok THEN r
            ELSE IF left.type # right.type THEN Raise("Exception", r.w)
            ELSE IF left.type = "number"
                 THEN Ok(RuntimeValue("number", NumAdd(left.value, right.value)), r.w)
            ELSE IF left.type = "string" THEN Ok(Str(left.value \o right.value), r.w)
            ELSE IF left.type = "array" THEN Ok(Array(Value(left) \o Value(right)), r.w)
            ELSE Raise("Exception", r.w)

subtract(arguments, stack, w) ==
    IF Len(arguments) # 2 THEN Raise("Exception", w)
    ELSE LET r == execute_in_order(arguments, <<1, 2>>, stack, w)
             left == r.value[1]
             right == r.value[2]
         IN IF ~r.ok THEN r
            ELSE IF left.type # "number" \/ right.type # "number"
                 THEN Raise("Exception", r.w)
            ELSE Ok(RuntimeValue("number", NumSub(left.value, right.value)), r.w)

eq_fn(arguments, stack, w) ==
    IF Len(arguments) # 2 THEN Raise("Exception", w)
    ELSE LET r == execute_in_order(arguments, <<1, 2>>, stack, w)
         IN IF ~r.ok THEN r ELSE Ok(Bool(eq(r.value[1], r.value[2])), r.w)

neq(arguments, stack, w) ==
    IF Len(arguments) # 2 THEN Raise("Exception", w)
    ELSE LET r == execute_in_order(arguments, <<1, 2>>, stack, w)
         IN IF ~r.ok THEN r ELSE Ok(Bool(~eq(r.value[1], r.value[2])), r.w)

and_fn(arguments, stack, w) ==
    IF Len(arguments) # 2 THEN Raise("Exception", w)
    ELSE LET r == execute_in_order(arguments, <<1, 2>>, stack, w)
             left == r.value[1]
             right == r.value[2]
         IN IF ~r.ok THEN r
            ELSE IF truthy(left) THEN Ok(right, r.w) ELSE Ok(left, r.w)

or_fn(arguments, stack, w) ==
    IF Len(arguments) # 2 THEN Raise("Exception", w)
    ELSE LET r == execute_in_order(arguments, <<1, 2>>, stack, w)
             left == r.value[1]
             right == r.value[2]
         IN IF ~r.ok THEN r
            ELSE IF truthy(left) THEN Ok(left, r.w) ELSE Ok(right, r.w)

count(arguments, stack, w) ==
    IF Len(arguments) # 1 THEN Raise("Exception", w)
    ELSE LET arg == execute(arguments[1], stack, w)
         IN IF ~arg.ok THEN arg
            ELSE IF arg.value.type # "array" THEN Raise("Exception", arg.w)
            ELSE Ok(Num(Len(Value(arg.value))), arg.w)

keys(arguments, stack, w) ==
    IF Len(arguments) # 1 THEN Raise("Exception", w)
    ELSE LET arg == execute(arguments[1], stack, w)
             ks == keys_of(arg.value)
         IN IF ~arg.ok THEN arg
            ELSE Ok(Array([i \in DOMAIN ks |-> Str(ks[i])]), arg.w)

dot(arguments, stack, w) ==
    IF Len(arguments) # 2 THEN Raise("Exception", w)
    ELSE LET left == execute(arguments[1], stack, w)
             right == arguments[2]
         IN IF ~left.ok THEN left
            ELSE IF right.type # "reference" THEN Raise("Exception", left.w)
            ELSE Ok(access(left.value, right.name), left.w)

\* for item in operand.value: res = execute(mutation, add_runtime_value_to_stack(item, stack))
\* r carries the list `out` built so far.
RECURSIVE map_loop(_, _, _, _, _)
map_loop(mutation, items, stack, r, i) ==
    IF i > Len(items) THEN r
    ELSE LET res == execute(mutation, add_runtime_value_to_stack(items[i], stack), r.w)
         IN IF ~res.ok THEN res
            ELSE map_loop(mutation, items, stack_after_push(items[i], stack),
                          Ok(Append(r.value, res.value), res.w), i + 1)

map(arguments, stack, w) ==
    IF Len(arguments) # 2 THEN Raise("Exception", w)
    ELSE LET mutation == arguments[1]
             operand == execute(arguments[2], stack, w)
         IN IF ~operand.ok THEN operand
            ELSE IF operand.value.type # "array" THEN Raise("Exception", operand.w)
            ELSE LET out == map_loop(mutation, Value(operand.value), stack,
                                     Ok(<<>>, operand.w), 1)
                 IN IF ~out.ok THEN out ELSE Ok(Array(out.value), out.w)

RECURSIVE filter_loop(_, _, _, _, _)
filter_loop(mutation, items, stack, r, i) ==
    IF i > Len(items) THEN r
    ELSE LET res == execute(mutation, add_runtime_value_to_stack(items[i], stack), r.w)
         IN IF ~res.ok THEN res
            ELSE filter_loop(mutation, items, stack_after_push(items[i], stack),
                             Ok(IF truthy(res.value) THEN Append(r.value, items[i])
                                ELSE r.value, res.w), i + 1)

filter(arguments, stack, w) ==
    IF Len(arguments) # 2 THEN Raise("Exception", w)
    ELSE LET mutation == arguments[1]
             operand == execute(arguments[2], stack, w)
         IN IF ~operand.ok THEN operand
            ELSE IF operand.value.type # "array" THEN Raise("Exception", operand.w)
            ELSE LET out == filter_loop(mutation, Value(operand.value), stack,
                                        Ok(<<>>, operand.w), 1)
                 IN IF ~out.ok THEN out ELSE Ok(Array(out.value), out.w)

\* r carries the accumulator `out`.
RECURSIVE reduce_loop(_, _, _, _, _)
reduce_loop(mutation, items, stack, r, i) ==
    IF i > Len(items) THEN r
    ELSE LET acc_cur == Array(<<r.value, items[i]>>)
             out == execute(mutation, add_runtime_value_to_stack(acc_cur, stack), r.w)
         IN IF ~out.ok THEN out
            ELSE reduce_loop(mutation, items, stack_after_push(acc_cur, stack), out, i + 1)

reduce(arguments, stack, w) ==
    IF Len(arguments) # 3 THEN Raise("Exception", w)
    ELSE LET r == execute_in_order(arguments, <<2, 3>>, stack, w)
             initial == r.value[1]
             mutation == arguments[1]
             operand == r.value[2]
         IN IF ~r.ok THEN r
            ELSE IF operand.type # "array" THEN Raise("Exception", r.w)
            ELSE reduce_loop(mutation, Value(operand), stack, Ok(initial, r.w), 1)

apply(arguments, stack, w) ==
    IF Len(arguments) # 2 THEN Raise("Exception", w)
    ELSE LET target == execute(arguments[2], stack, w)
         IN IF ~target.ok THEN target
            ELSE execute(arguments[1],
                         add_runtime_value_to_stack(target.value, stack), target.w)

\* operand.value[k] for a list or a str
Items(operand) == IF operand.type = "string" THEN Chars(operand.value) ELSE Value(operand)
ItemsValue(operand, items) ==
    IF operand.type = "string" THEN Str(JoinText(items, "")) ELSE Array(items)

_index_double(operand, index_one, index_two, w) ==
    IF operand.type = "array" \/ operand.type = "string"
    THEN LET one == IF index_one.type = "null" THEN Num(0) ELSE index_one
             two_is_null == index_two.type = "null"   \* then 10000000000000
         IN IF one.type # "number" \/ (~two_is_null /\ index_two.type # "number")
            THEN Raise("Exception", w)
            ELSE IF one.value.half # 0 THEN Raise("Exception", w)
            ELSE IF ~two_is_null /\ index_two.value.half # 0 THEN Raise("Exception", w)
            ELSE LET n == Len(Items(operand))
                     index_one_num == IF one.value.whole < 0
                                      THEN n + one.value.whole ELSE one.value.whole
                     index_two_num ==
                         IF two_is_null THEN n
                         ELSE IF index_two.value.whole < 0
                              THEN n + index_two.value.whole
                              ELSE index_two.value.whole
                 IN Ok(ItemsValue(operand,
                                  PySlice(Items(operand), index_one_num, index_two_num)), w)
    ELSE Raise("Exception", w)

\* Faulty variant of _index_single: a negative index is not counted from the end.
_index_single_no_wrap(operand, index, w) ==
    IF operand.type = "array" \/ operand.type = "string"
    THEN IF index.type # "number" THEN Raise("Exception", w)
         ELSE IF index.value.half # 0 THEN Raise("Exception", w)
         ELSE LET n == Len(Items(operand))
                  index_num == index.value.whole
              IN IF index_num < 0 \/ index_num >= n THEN Ok(Null, w)
                 ELSE IF operand.type = "string"
                      THEN Ok(Str(Items(operand)[index_num + 1]), w)
                      ELSE Ok(Items(operand)[index_num + 1], w)
    ELSE IF to_string_raises(index) THEN Raise("ValueError", w)
         ELSE Ok(access(operand, to_string(index)), w)

_index_single(operand, index, w) ==
    IF operand.type = "array" \/ operand.type = "string"
    THEN IF index.type # "number" THEN Raise("Exception", w)
         ELSE IF index.value.half # 0 THEN Raise("Exception", w)
         ELSE LET n == Len(Items(operand))
                  index_num == IF index.value.whole < 0 THEN n + index.value.whole
                               ELSE index.value.whole
              IN IF index_num < 0 \/ index_num >= n THEN Ok(Null, w)
                 ELSE IF operand.type = "string"
                      THEN Ok(Str(Items(operand)[index_num + 1]), w)
                      ELSE Ok(Items(operand)[index_num + 1], w)
    ELSE IF to_string_raises(index) THEN Raise("ValueError", w)
         ELSE Ok(access(operand, to_string(index)), w)

index_single_order == <<2, 1>>
index_double_order == <<3, 1, 2>>
index(arguments, stack, w) ==
    IF Len(arguments) \notin {2, 3} THEN Raise("Exception", w)
    ELSE IF Len(arguments) = 3
         THEN LET r == execute_in_order(arguments, index_double_order, stack, w)
              IN IF ~r.ok THEN r
                 ELSE _index_double(r.value[1], r.value[2], r.value[3], r.w)
         ELSE LET r == execute_in_order(arguments, index_single_order, stack, w)
              IN IF ~r.ok THEN r ELSE _index_single(r.value[1], r.value[2], r.w)

string(arguments, stack, w) ==
    IF Len(arguments) # 1 THEN Raise("Exception", w)
    ELSE LET arg == execute(arguments[1], stack, w)
         IN IF ~arg.ok THEN arg
            ELSE IF to_string_raises(arg.value) THEN Raise("ValueError", arg.w)
            ELSE Ok(Str(to_string(arg.value)), arg.w)

\* match with a String pattern (Regex patterns are not in this model yet).
match(arguments, stack, w) ==
    IF Len(arguments) # 2 THEN Raise("Exception", w)
    ELSE LET r == execute_in_order(arguments, <<2, 1>>, stack, w)
             target == r.value[1]
             pattern == r.value[2]
         IN IF ~r.ok THEN r
            ELSE IF pattern.type = "string" THEN Ok(Bool(eq(target, pattern)), r.w)
            ELSE Raise("Exception", r.w)

Reversed(s) == [i \in DOMAIN s |-> s[Len(s) + 1 - i]]
match_operator(arguments, stack, w) ==
    IF Len(arguments) # 2 THEN Raise("Exception", w)
    ELSE match(Reversed(arguments), stack, w)

\* A Regex value: the compiled pattern (its source and flag bits) and the
\* modifiers.  The patterns of this model are made of literal letters and
\* digits and of `.`, which re.compile accepts.
Regex(pattern, flags_int, is_global) ==
    [type |-> "regex", value |-> [pattern |-> pattern, flags |-> flags_int],
     modifiers |-> [global |-> is_global]]
HasFlag(flags, c) == StrFind(flags, c) # 0
regex(arguments, stack, w) ==
    IF Len(arguments) \notin {1, 2} THEN Raise("Exception", w)
    ELSE LET pattern == execute(arguments[1], stack, w)
         IN IF ~pattern.ok THEN pattern
            ELSE IF pattern.value.type # "string" THEN Raise("Exception", pattern.w)
            ELSE LET flags == IF Len(arguments) = 2
                              THEN execute(arguments[2], stack, pattern.w)
                              ELSE Ok(Str(""), pattern.w)
                 IN IF ~flags.ok THEN flags
                    ELSE IF flags.value.type # "string" THEN Raise("Exception", flags.w)
                    ELSE Ok(Regex(pattern.value.value,
                                  {c \in {"i", "m", "s"} : HasFlag(flags.value.value, c)},
                                  HasFlag(flags.value.value, "g")),
                            flags.w)

\* Pattern.sub(repl, string, count) for a pattern of literals and `.`, and a
\* repl without backslashes: the matches are found from left to right, each
\* search starting where the last match ended; a count of 0 is no limit.  An
\* empty match is followed by one character of the string.
re_match_at(pattern, s, pos) ==
    /\ pos + Len(pattern) - 1 <= Len(s)
    /\ \A k \in 1..Len(pattern) :
          SubSeq(pattern, k, k) = "." \/ SubSeq(pattern, k, k) = SubSeq(s, pos + k - 1, pos + k - 1)
RECURSIVE re_sub_from(_, _, _, _, _, _, _)
re_sub_from(pattern, repl, s, limit, made, pos, out) ==
    IF pos > Len(s) + 1 THEN out
    ELSE IF limit # 0 /\ made >= limit THEN out \o SubSeq(s, pos, Len(s))
    ELSE IF re_match_at(pattern, s, pos)
         THEN IF Len(pattern) = 0
              THEN re_sub_from(pattern, repl, s, limit, made + 1, pos + 1,
                               out \o repl \o (IF pos > Len(s) THEN "" ELSE SubSeq(s, pos, pos)))
              ELSE re_sub_from(pattern, repl, s, limit, made + 1, pos + Len(pattern),
                               out \o repl)
    ELSE IF pos > Len(s) THEN out
    ELSE re_sub_from(pattern, repl, s, limit, made, pos + 1, out \o SubSeq(s, pos, pos))
re_sub(compiled, repl, s, limit) == re_sub_from(compiled.pattern, repl, s, limit, 0, 1, "")

\* Faulty variant of replace: a Regex replaces its first match only, whatever
\* its modifiers.
replace_first_only(arguments, stack, w) ==
    IF Len(arguments) # 3 THEN Raise("Exception", w)
    ELSE LET r == execute_in_order(arguments, <<3, 1, 2>>, stack, w)
             target == r.value[1]
             pattern == r.value[2]
             replacement == r.value[3]
         IN IF ~r.ok THEN r
            ELSE IF pattern.type = "regex"
                 THEN IF replacement.type # "string" \/ target.type # "string"
                      THEN Raise("TypeError", r.w)
                      ELSE Ok(Str(re_sub(pattern.value, replacement.value, target.value, 1)),
                              r.w)
            ELSE IF pattern.type = "string"
                 THEN IF target.type # "string" THEN Raise("AttributeError", r.w)
                      ELSE IF replacement.type # "string" THEN Raise("TypeError", r.w)
                      ELSE Ok(Str(StrReplaceFirst(target.value, pattern.value,
                                                  replacement.value)), r.w)
            ELSE Raise("Exception", r.w)
replace(arguments, stack, w) ==
    IF Len(arguments) # 3 THEN Raise("Exception", w)
    ELSE LET r == execute_in_order(arguments, <<3, 1, 2>>, stack, w)
             target == r.value[1]
             pattern == r.value[2]
             replacement == r.value[3]
         IN IF ~r.ok THEN r
            ELSE IF pattern.type = "regex"
                 THEN IF replacement.type # "string" \/ target.type # "string"
                      THEN Raise("TypeError", r.w)
                      ELSE Ok(Str(re_sub(pattern.value, replacement.value, target.value,
                                         IF pattern.modifiers.global THEN 0 ELSE 1)),
                              r.w)
            ELSE IF pattern.type = "string"
                 THEN IF target.type # "string" THEN Raise("AttributeError", r.w)
                      ELSE IF replacement.type # "string" THEN Raise("TypeError", r.w)
                      ELSE Ok(Str(StrReplaceFirst(target.value, pattern.value,
                                                  replacement.value)), r.w)
            ELSE Raise("Exception", r.w)

\* split with a String delimiter: target is evaluated and checked before
\* the delimiter is evaluated.
split(arguments, stack, w) ==
    IF Len(arguments) # 2 THEN Raise("Exception", w)
    ELSE LET target == execute(arguments[2], stack, w)
         IN IF ~target.ok THEN target
            ELSE IF target.value.type # "string" THEN Raise("Exception", target.w)
            ELSE LET delimiter == execute(arguments[1], stack, target.w)
                     parts == IF delimiter.value.value = ""
                              THEN Chars(target.value.value)
                              ELSE StrSplit(target.value.value, delimiter.value.value)
                 IN IF ~delimiter.ok THEN delimiter
                    ELSE IF delimiter.value.type = "string"
                         THEN Ok(Array([i \in DOMAIN parts |-> Str(parts[i])]),
                                 delimiter.w)
                    ELSE Raise("Exception", delimiter.w)

\* The second definition of stringjoin (builtins.py:610) is the one the
\* registry holds.
stringjoin(arguments, stack, w) ==
    IF Len(arguments) # 2 THEN Raise("Exception", w)
    ELSE LET target == execute(arguments[2], stack, w)
         IN IF ~target.ok THEN target
            ELSE IF target.value.type # "array" THEN Raise("Exception", target.w)
            ELSE LET delimiter == execute(arguments[1], stack, target.w)
                     items == Value(target.value)
                 IN IF ~delimiter.ok THEN delimiter
                    ELSE IF delimiter.value.type # "string"
                         THEN Raise("Exception", delimiter.w)
                    ELSE IF \E i \in DOMAIN items : to_string_raises(items[i])
                         THEN Raise("ValueError", delimiter.w)
                    ELSE Ok(Str(JoinText([i \in DOMAIN items |-> to_string(items[i])],
                                         delimiter.value.value)), delimiter.w)

\* sort and sortby: the result of sorted(), or the ValueError of compare.
sort_result(with_key, w) ==
    IF sorted_raises(with_key) THEN Raise("ValueError", w)
    ELSE LET post_sort == sorted(with_key)
         IN Ok(Array([i \in DOMAIN post_sort |-> post_sort[i].value]), w)

sort(arguments, stack, w) ==
    IF Len(arguments) # 1 THEN Raise("Exception", w)
    ELSE LET arg == execute(arguments[1], stack, w)
         IN IF ~arg.ok THEN arg
            ELSE IF arg.value.type # "array" THEN Raise("Exception", arg.w)
            ELSE sort_result([i \in DOMAIN Value(arg.value) |->
                                [key |-> Value(arg.value)[i],
                                 value |-> Value(arg.value)[i]]], arg.w)

\* for item in target.value: key = execute(arguments[0], ...); with_key.append((key, item))
RECURSIVE sortby_loop(_, _, _, _, _)
sortby_loop(mutation, items, stack, r, i) ==
    IF i > Len(items) THEN r
    ELSE LET key == execute(mutation, add_runtime_value_to_stack(items[i], stack), r.w)
         IN IF ~key.ok THEN key
            ELSE sortby_loop(mutation, items, stack_after_push(items[i], stack),
                             Ok(Append(r.value, [key |-> key.value, value |-> items[i]]),
                                key.w), i + 1)
sortby_sorted(with_key) ==
    IF ~with_key.ok THEN with_key ELSE sort_result(with_key.value, with_key.w)
sortby(arguments, stack, w) ==
    IF Len(arguments) # 2 THEN Raise("Exception", w)
    ELSE LET target == execute(arguments[2], stack, w)
         IN IF ~target.ok THEN target
            ELSE IF target.value.type # "array" THEN Raise("Exception", target.w)
            ELSE sortby_sorted(sortby_loop(arguments[1], Value(target.value), stack,
                                           Ok(<<>>, target.w), 1))

\* lt, lte, gt, gte: execute(arguments[0]) OP execute(arguments[1])
ordering(arguments, stack, w, holds(_)) ==
    IF Len(arguments) # 2 THEN Raise("Exception", w)
    ELSE LET r == execute_in_order(arguments, <<1, 2>>, stack, w)
         IN IF ~r.ok THEN r
            ELSE IF compare_raises(r.value[1], r.value[2]) THEN Raise("ValueError", r.w)
            ELSE Ok(Bool(holds(compare(r.value[1], r.value[2]))), r.w)
lt(arguments, stack, w) == ordering(arguments, stack, w, LAMBDA c : c < 0)
lte(arguments, stack, w) == ordering(arguments, stack, w, LAMBDA c : c <= 0)
gt(arguments, stack, w) == ordering(arguments, stack, w, LAMBDA c : c > 0)
gte(arguments, stack, w) == ordering(arguments, stack, w, LAMBDA c : c >= 0)

\* Faulty variant of groups_append: a new key goes to the front of the dict.
groups_append_front(groups, key, item) ==
    IF DictHas(groups, key)
    THEN [i \in DOMAIN groups |->
            IF groups[i].key = key
            THEN [key |-> key, value |-> Append(groups[i].value, item)]
            ELSE groups[i]]
    ELSE <<[key |-> key, value |-> <<item>>]>> \o groups

\* groups[key].append(item), a new key going to the end of the dict
groups_append(groups, key, item) ==
    IF DictHas(groups, key)
    THEN [i \in DOMAIN groups |->
            IF groups[i].key = key
            THEN [key |-> key, value |-> Append(groups[i].value, item)]
            ELSE groups[i]]
    ELSE Append(groups, [key |-> key, value |-> <<item>>])
RECURSIVE groupby_loop(_, _, _, _, _)
groupby_loop(mut, items, stack, r, i) ==
    IF i > Len(items) THEN r
    ELSE LET key == execute(mut, add_runtime_value_to_stack(items[i], stack), r.w)
         IN IF ~key.ok THEN key
            ELSE IF to_string_raises(key.value) THEN Raise("ValueError", key.w)
            ELSE groupby_loop(mut, items, stack_after_push(items[i], stack),
                              Ok(groups_append(r.value, to_string(key.value), items[i]),
                                 key.w), i + 1)
groupby_groups(groups) ==
    IF ~groups.ok THEN groups
    ELSE Ok(Object([i \in DOMAIN groups.value |->
                      [key |-> groups.value[i].key,
                       value |-> Array(groups.value[i].value)]]), groups.w)
groupby(arguments, stack, w) ==
    IF Len(arguments) # 2 THEN Raise("Exception", w)
    ELSE LET target == execute(arguments[2], stack, w)
         IN IF ~target.ok THEN target
            ELSE IF target.value.type # "array" THEN Raise("Exception", target.w)
            ELSE groupby_groups(groupby_loop(arguments[1], Value(target.value), stack,
                                             Ok(<<>>, target.w), 1))


\* _sequence_helper: the tuples of 0-based positions idx1 < idx2 < .. with
\* arr[k][idxk] true, from position `start` on.  The loop over idx carries
\* the list `result` built so far.
RECURSIVE _sequence_helper(_, _)
\* Faulty variant of _sequence_helper_loop: the next position may repeat idx.
RECURSIVE _sequence_helper_loop_repeating(_, _, _)
_sequence_helper_loop_repeating(arr, idx, result) ==
    IF idx >= Len(arr[1]) THEN result
    ELSE IF ~arr[1][idx + 1] THEN _sequence_helper_loop_repeating(arr, idx + 1, result)
    ELSE IF Len(arr) = 1
         THEN _sequence_helper_loop_repeating(arr, idx + 1, Append(result, <<idx>>))
    ELSE LET subResult == _sequence_helper(Tail(arr), idx)
         IN _sequence_helper_loop_repeating(
                arr, idx + 1,
                result \o [i \in DOMAIN subResult |-> <<idx>> \o subResult[i]])
RECURSIVE _sequence_helper_loop(_, _, _)
_sequence_helper_loop(arr, idx, result) ==
    IF idx >= Len(arr[1]) THEN result
    ELSE IF ~arr[1][idx + 1] THEN _sequence_helper_loop(arr, idx + 1, result)
    ELSE IF Len(arr) = 1
         THEN _sequence_helper_loop(arr, idx + 1, Append(result, <<idx>>))
    ELSE LET subResult == _sequence_helper(Tail(arr), idx + 1)
         IN _sequence_helper_loop(
                arr, idx + 1,
                result \o [i \in DOMAIN subResult |-> <<idx>> \o subResult[i]])
_sequence_helper(arr, start) == _sequence_helper_loop(arr, start, <<>>)

\* for i in range(len(target.value)): bitmask.append(execute(predicate, ..).truthy())
RECURSIVE sequence_bitmask(_, _, _, _, _)
sequence_bitmask(predicate, items, stack, r, i) ==
    IF i > Len(items) THEN r
    ELSE LET value == execute(predicate, add_runtime_value_to_stack(items[i], stack), r.w)
         IN IF ~value.ok THEN value
            ELSE sequence_bitmask(predicate, items, stack_after_push(items[i], stack),
                                  Ok(Append(r.value, truthy(value.value)), value.w), i + 1)
\* for predicate in predicates: bitmasks.append(bitmask)
RECURSIVE sequence_bitmasks(_, _, _, _, _)
sequence_bitmasks(predicates, items, stack, r, p) ==
    IF p > Len(predicates) THEN r
    ELSE LET bitmask == sequence_bitmask(predicates[p], items, stack, Ok(<<>>, r.w), 1)
         IN IF ~bitmask.ok THEN bitmask
            ELSE sequence_bitmasks(predicates, items, stack,
                                   Ok(Append(r.value, bitmask.value), bitmask.w), p + 1)
sequence_result(items, indices_map) ==
    Array([t \in DOMAIN indices_map |->
             Array([k \in DOMAIN indices_map[t] |-> items[indices_map[t][k] + 1]])])
sequence(arguments, stack, w) ==
    IF Len(arguments) < 2 THEN Raise("Exception", w)
    ELSE LET target == execute(arguments[Len(arguments)], stack, w)
             predicates == SubSeq(arguments, 1, Len(arguments) - 1)
         IN IF ~target.ok THEN target
            ELSE IF target.value.type # "array" THEN Raise("Exception", target.w)
            ELSE LET bitmasks == sequence_bitmasks(predicates, Value(target.value), stack,
                                                   Ok(<<>>, target.w), 1)
                 IN IF ~bitmasks.ok THEN bitmasks
                    ELSE Ok(sequence_result(Value(target.value),
                                            _sequence_helper(bitmasks.value, 0)),
                            bitmasks.w)
(***************************************************************************)
(* The function a host callable is wrapped into (from_py_func.definition)  *)
(***************************************************************************)
\* py_args = [exec(arg, stack).to_python() for arg in args]; r carries py_args.
RECURSIVE py_args_loop(_, _, _, _)
py_args_loop(args, stack, r, i) ==
    IF i > Len(args) THEN r
    ELSE LET x == execute(args[i], stack, r.w)
         IN IF ~x.ok THEN x
            ELSE IF to_python_raises(x.value) THEN Raise("ValueError", x.w)
            ELSE py_args_loop(args, stack,
                              Ok(Append(r.value, to_python(x.value)), x.w), i + 1)

definition(fn, args, stack, w) ==
    IF Len(args) < fn.min_arity THEN Raise("MistQLTypeError", w)
    ELSE IF ~fn.max_arity.none /\ Len(args) > fn.max_arity.n
         THEN Raise("MistQLTypeError", w)
    ELSE LET py_args == py_args_loop(args, stack, Ok(<<>>, w), 1)
         IN IF ~py_args.ok THEN py_args
            ELSE Ok(RuntimeValue_of(py_call(fn.py_func, py_args.value), FALSE),
                    [py_args.w EXCEPT !.calls =
                        Append(@, [name |-> fn.py_func.name, args |-> py_args.value])])

\* function_definition(arguments, stack, execute)
function_definition(fn, arguments, stack, w) ==
    IF fn.kind = "py_func" THEN definition(fn, arguments, stack, w)
    ELSE CASE fn.name = "." -> dot(arguments, stack, w)
           [] fn.name = "-/unary" -> unary_minus(arguments, stack, w)
           [] fn.name = "!/unary" -> unary_not(arguments, stack, w)
           [] fn.name = "+" -> add(arguments, stack, w)
           [] fn.name = "-" -> subtract(arguments, stack, w)
           [] fn.name = "==" -> eq_fn(arguments, stack, w)
           [] fn.name = "!=" -> neq(arguments, stack, w)
           [] fn.name = ">" -> gt(arguments, stack, w)
           [] fn.name = ">=" -> gte(arguments, stack, w)
           [] fn.name = "<" -> lt(arguments, stack, w)
           [] fn.name = "<=" -> lte(arguments, stack, w)
           [] fn.name = "&&" -> and_fn(arguments, stack, w)
           [] fn.name = "||" -> or_fn(arguments, stack, w)
           [] fn.name = "=~" -> match_operator(arguments, stack, w)
           [] fn.name = "apply" -> apply(arguments, stack, w)
           [] fn.name = "count" -> count(arguments, stack, w)
           [] fn.name = "keys" -> keys(arguments, stack, w)
           [] fn.name = "match" -> match(arguments, stack, w)
           [] fn.name = "split" -> split(arguments, stack, w)
           [] fn.name = "groupby" -> groupby(arguments, stack, w)
           [] fn.name = "map" -> map(arguments, stack, w)
           [] fn.name = "filter" -> filter(arguments, stack, w)
           [] fn.name = "reduce" -> reduce(arguments, stack, w)
           [] fn.name = "index" -> index(arguments, stack, w)
           [] fn.name = "string" -> string(arguments, stack, w)
           [] fn.name = "sort" -> sort(arguments, stack, w)
           [] fn.name = "sortby" -> sortby(arguments, stack, w)
           [] fn.name = "if" -> if_else(arguments, stack, w)
           [] fn.name = "stringjoin" -> stringjoin(arguments, stack, w)
           [] fn.name = "replace" -> replace(arguments, stack, w)
           [] fn.name = "sequence" -> sequence(arguments, stack, w)
           [] fn.name = "regex" -> regex(arguments, stack, w)
           \* a built-in this model does not cover yet
           [] OTHER -> Raise("NotModelled", w)

(***************************************************************************)
(* The evaluator (execute.py)                                              *)
(***************************************************************************)
\* Faulty variant of execute_fncall: the arguments are evaluated before the
\* head is looked at.
execute_fncall_eager(head, arguments, stack, w) ==
    LET fn == execute(head, stack, w)
    IN IF ~fn.ok THEN fn
       ELSE LET evaluated == execute_in_order(arguments, [i \in DOMAIN arguments |-> i],
                                              stack, fn.w)
            IN IF ~evaluated.ok THEN evaluated
               ELSE IF fn.value.type # "function"
                    THEN Raise("MistQLTypeError", evaluated.w)
               ELSE function_definition(fn.value.value, arguments, stack, fn.w)
execute_fncall(head, arguments, stack, w) ==
    LET fn == execute(head, stack, w)
    IN IF ~fn.ok THEN fn
       ELSE IF fn.value.type # "function" THEN Raise("MistQLTypeError", fn.w)
       ELSE function_definition(fn.value.value, arguments, stack, fn.w)

\* stage_ast.args.copy(): a new list; `same_list` tells whether a change to
\* it is a change to the list the AST node holds.
\* (list_alias is the faulty variant without the copy.)
list_alias(args) == [items |-> args, same_list |-> TRUE]
list_copy(args) == [items |-> args, same_list |-> FALSE]
\* args.append(ValueExpression(data))
pipe_args(args, data) == Append(args, ValueExpression(data))
\* new_stack = add_runtime_value_to_stack(data, stack): `stack` is the stack
\* execute_pipe was called with, `previous` the one of the stage before.
\* (pipe_stack_chained is the faulty variant that builds on `previous`.)
pipe_stack_chained(data, stack, previous) == add_runtime_value_to_stack(data, previous)
pipe_stack(data, stack, previous) == add_runtime_value_to_stack(data, stack)

\* The loop over `remaining`; r carries `data`, previous the last new_stack.
RECURSIVE pipe_loop(_, _, _, _, _)
pipe_loop(remaining, stack, previous, r, i) ==
    IF i > Len(remaining) THEN r
    ELSE LET stage_ast == remaining[i]
             data == r.value
             new_stack == pipe_stack(data, stack, previous)
             args == list_copy(stage_ast.args)
             appended == pipe_args(args.items, data)
             w == IF args.same_list
                  THEN [r.w EXCEPT !.writes =
                           Append(@, [node |-> stage_ast,
                                      now |-> [stage_ast EXCEPT !.args = appended]])]
                  ELSE r.w
             stage == FnExpression(stage_ast.fn, appended)
             next == execute(stage, new_stack, w)
         IN IF stage_ast.type # "fncall"
            THEN Raise("OpenAnIssueIfYouGetThisError", r.w)
            ELSE IF ~next.ok THEN next
                 ELSE pipe_loop(remaining, stack_after_push(data, stack), new_stack,
                                next, i + 1)

\* Faulty variant of execute_pipe: the stages are checked before the first
\* is evaluated.
execute_pipe_checked_first(stages, stack, w) ==
    LET first == stages[1]
        remaining == SubSeq(stages, 2, Len(stages))
        data == execute(first, stack, w)
    IN IF \E i \in DOMAIN remaining : remaining[i].type # "fncall"
       THEN Raise("OpenAnIssueIfYouGetThisError", w)
       ELSE IF ~data.ok THEN data ELSE pipe_loop(remaining, stack, stack, data, 1)
execute_pipe(stages, stack, w) ==
    LET first == stages[1]
        remaining == SubSeq(stages, 2, Len(stages))
        data == execute(first, stack, w)
    IN IF ~data.ok THEN data ELSE pipe_loop(remaining, stack, stack, data, 1)

\* {key: execute(value, stack) for key, value in ast.entries.items()}
RECURSIVE object_loop(_, _, _, _)
object_loop(entries, stack, r, i) ==
    IF i > Len(entries) THEN r
    ELSE LET x == execute(entries[i].value, stack, r.w)
         IN IF ~x.ok THEN x
            ELSE object_loop(entries, stack,
                             Ok(Append(r.value, [key |-> entries[i].key,
                                                 value |-> x.value]), x.w), i + 1)

execute(ast, stack, w) ==
    CASE ast.type = "value" -> Ok(ast.value, w)
      [] ast.type = "reference" ->
            LET found == find_in_stack(stack, ast.name, ast.absolute)
            IN IF found.ok THEN Ok(found.value, w) ELSE Raise("MistQLReferenceError", w)
      [] ast.type = "fncall" -> execute_fncall(ast.fn, ast.args, stack, w)
      [] ast.type = "array" ->
            LET items == execute_in_order(ast.items, [i \in DOMAIN ast.items |-> i],
                                          stack, w)
            IN IF ~items.ok THEN items ELSE Ok(Array(items.value), items.w)
      [] ast.type = "object" ->
            LET entries == object_loop(ast.entries, stack, Ok(<<>>, w), 1)
            IN IF ~entries.ok THEN entries ELSE Ok(Object(entries.value), entries.w)
      [] ast.type = "pipe" -> execute_pipe(ast.stages, stack, w)

\* execute_outer as instance.py calls it, with the extras of the instance;
\* `initial` is what build_initial_stack gave.
execute_from(ast, initial, w) ==
    IF ~initial.ok THEN Raise(initial.error, w)
    ELSE execute(ast, initial.stack, w)
execute_outer(ast, data, extras, w) ==
    execute_from(ast, build_initial_stack(data, builtins, extras), w)

(***************************************************************************)
(* MistQLInstance (instance.py)                                            *)
(***************************************************************************)
parse_lru_cache_size == 4

\* The AST object as the writes made during an evaluation leave it.
RECURSIVE AfterWrite(_, _)
AfterWrite(ast, write) ==
    IF ast = write.node THEN write.now
    ELSE CASE ast.type = "fncall" ->
                [ast EXCEPT !.fn = AfterWrite(@, write),
                            !.args = [i \in DOMAIN @ |-> AfterWrite(@[i], write)]]
           [] ast.type = "array" ->
                [ast EXCEPT !.items = [i \in DOMAIN @ |-> AfterWrite(@[i], write)]]
           [] ast.type = "object" ->
                [ast EXCEPT !.entries =
                    [i \in DOMAIN @ |-> [@[i] EXCEPT !.value = AfterWrite(@, write)]]]
           [] ast.type = "pipe" ->
                [ast EXCEPT !.stages = [i \in DOMAIN @ |-> AfterWrite(@[i], write)]]
           [] OTHER -> ast
RECURSIVE AfterWrites(_, _, _)
AfterWrites(ast, writes, i) ==
    IF i > Len(writes) THEN ast
    ELSE AfterWrites(AfterWrite(ast, writes[i]), writes, i + 1)

\* functools.lru_cache(maxsize)(parse): a hit moves the entry to the front,
\* a miss parses, puts the AST in front and drops the least recently used.
CacheHit(entries, q) == \E i \in DOMAIN entries : entries[i].query = q
CacheIndex(entries, q) == CHOOSE i \in DOMAIN entries : entries[i].query = q
Without(entries, k) == SubSeq(entries, 1, k - 1) \o SubSeq(entries, k + 1, Len(entries))
lru_trim(entries, maxsize) ==
    IF Len(entries) > maxsize THEN SubSeq(entries, 1, maxsize) ELSE entries

\* Faulty variant of query_return: a result that cannot be converted comes
\* back to the host as None.
query_return_none(ast, result) ==
    LET after == AfterWrites(ast, result.w.writes, 1)
    IN IF ~result.ok
       THEN [ok |-> FALSE, error |-> result.error, value |-> PyNone,
             calls |-> result.w.calls, ast |-> after]
       ELSE IF to_python_raises(result.value)
            THEN [ok |-> TRUE, error |-> "", value |-> PyNone,
                  calls |-> result.w.calls, ast |-> after]
            ELSE [ok |-> TRUE, error |-> "", value |-> output_garden_wall(result.value),
                  calls |-> result.w.calls, ast |-> after]

\* MistQLInstance.query up to its return value: [ok, error, value, calls]
\* and the AST as the call left it.  `result` is what execute_outer gave.
query_return(ast, result) ==
    LET after == AfterWrites(ast, result.w.writes, 1)
    IN IF ~result.ok
       THEN [ok |-> FALSE, error |-> result.error, value |-> PyNone,
             calls |-> result.w.calls, ast |-> after]
       ELSE IF to_python_raises(result.value)
            THEN [ok |-> FALSE, error |-> "ValueError", value |-> PyNone,
                  calls |-> result.w.calls, ast |-> after]
            ELSE [ok |-> TRUE, error |-> "", value |-> output_garden_wall(result.value),
                  calls |-> result.w.calls, ast |-> after]

instance_query(ast, raw_data, instance_extras, instance_lazy) ==
    query_return(ast, execute_outer(ast, input_garden_wall(raw_data, instance_lazy),
                                    instance_extras, NewWorld))
(***************************************************************************)
(* The queries, inputs and extras the model runs                           *)
(***************************************************************************)
\* Parse trees as the Lark grammar of parse.py builds them.
T_at == Token("AT", "@")
T_name(n) == Token("CNAME", n)
T_num(text) == Token("NUMBER", text)
T_str(text) == Token("ESCAPED_STRING", text)
T_call(head, args) == Tree("fncall", <<head>> \o args)
T_op(op, a, b) == Tree(op, <<a, b>>)
T_tick(arg) == T_call(T_name("tick"), <<arg>>)
T_index(base, innards) ==
    Tree("index", <<base, Tree("indexing", <<Tree("index_innards", innards)>>)>>)
T_array(items) == Tree("array", items)
T_entry(key, value) == Tree("object_entry", <<key, value>>)

ShortCircuitTrees ==
    ("(tick 1) || (tick 2)" :> T_op("or", T_tick(T_num("1")), T_tick(T_num("2"))))
 @@ ("(tick 0) || (tick 2)" :> T_op("or", T_tick(T_num("0")), T_tick(T_num("2"))))
 @@ ("(tick 1) && (tick 2)" :> T_op("and", T_tick(T_num("1")), T_tick(T_num("2"))))
 @@ ("(tick 0) && (tick 2)" :> T_op("and", T_tick(T_num("0")), T_tick(T_num("2"))))
 @@ ("@ || (tick 2)" :> T_op("or", T_at, T_tick(T_num("2"))))
 @@ ("@ && (tick 2)" :> T_op("and", T_at, T_tick(T_num("2"))))
 @@ ("1 || nosuch" :> T_op("or", T_num("1"), T_name("nosuch")))
 @@ ("0 && nosuch" :> T_op("and", T_num("0"), T_name("nosuch")))

PipeTrees ==
    ("@ | apply (@ + 1)" :>
        Tree("pipe", <<T_at, T_call(T_name("apply"), <<T_op("plus", T_at, T_num("1"))>>)>>))
 @@ ("@ | map (@ + 1) | index 0" :>
        Tree("pipe", <<T_at,
                       T_call(T_name("map"), <<T_op("plus", T_at, T_num("1"))>>),
                       T_call(T_name("index"), <<T_num("0")>>)>>))
 @@ ("{k: 1} | apply 5 | apply k" :>
        Tree("pipe", <<Tree("object", <<T_entry(T_name("k"), T_num("1"))>>),
                       T_call(T_name("apply"), <<T_num("5")>>),
                       T_call(T_name("apply"), <<T_name("k")>>)>>))
 @@ ("@ | apply k | apply k" :>
        Tree("pipe", <<T_at, T_call(T_name("apply"), <<T_name("k")>>),
                       T_call(T_name("apply"), <<T_name("k")>>)>>))
 @@ ("@ | reduce (@[0] + @[1]) 0" :>
        Tree("pipe", <<T_at,
                       T_call(T_name("reduce"),
                              <<T_op("plus", T_index(T_at, <<T_num("0")>>),
                                             T_index(T_at, <<T_num("1")>>)),
                                T_num("0")>>)>>))
 @@ ("@ | first2 1" :>
        Tree("pipe", <<T_at, T_call(T_name("first2"), <<T_num("1")>>)>>))
 @@ ("@ | count" :> Tree("pipe", <<T_at, T_name("count")>>))

OperatorTrees ==
    ("@" :> T_at)
 @@ ("1 + 1" :> T_op("plus", T_num("1"), T_num("1")))
 @@ ("@.a" :> T_op("dot", T_at, T_name("a")))
 @@ ("@[0]" :> T_index(T_at, <<T_num("0")>>))
 @@ ("@[1:]" :> T_index(T_at, <<T_num("1"), Token("WCOLON", ":")>>))
 @@ ("!@" :> Tree("not", <<T_at>>))
 @@ ("@ == 1" :> T_op("eq", T_at, T_num("1")))
 @@ ("{a: @, \"a\": 1}" :>
        Tree("object", <<T_entry(T_name("a"), T_at), T_entry(T_str("\"a\""), T_num("1"))>>))

OrderTrees ==
    ("index (tick 0) (tick \"ab\")" :>
        T_call(T_name("index"), <<T_tick(T_num("0")), T_tick(T_str("\"ab\""))>>))
 @@ ("index (tick 0) (tick 1) (tick \"ab\")" :>
        T_call(T_name("index"),
               <<T_tick(T_num("0")), T_tick(T_num("1")), T_tick(T_str("\"ab\""))>>))
 @@ ("replace (tick \"a\") (tick \"b\") (tick \"ab\")" :>
        T_call(T_name("replace"),
               <<T_tick(T_str("\"a\"")), T_tick(T_str("\"b\"")), T_tick(T_str("\"ab\""))>>))
 @@ ("match (tick \"a\") (tick \"ab\")" :>
        T_call(T_name("match"), <<T_tick(T_str("\"a\"")), T_tick(T_str("\"ab\""))>>))
 @@ ("(tick \"ab\") =~ (tick \"a\")" :>
        T_op("match", T_tick(T_str("\"ab\"")), T_tick(T_str("\"a\""))))
 @@ ("split (tick \"a\") (tick \"ab\")" :>
        T_call(T_name("split"), <<T_tick(T_str("\"a\"")), T_tick(T_str("\"ab\""))>>))
 @@ ("stringjoin (tick \"a\") (tick [\"a\", \"b\"])" :>
        T_call(T_name("stringjoin"),
               <<T_tick(T_str("\"a\"")),
                 T_tick(T_array(<<T_str("\"a\""), T_str("\"b\"")>>))>>))
 @@ ("reduce (@[0]) (tick 0) (tick [1])" :>
        T_call(T_name("reduce"),
               <<T_index(T_at, <<T_num("0")>>), T_tick(T_num("0")),
                 T_tick(T_array(<<T_num("1")>>))>>))
 @@ ("(tick 1) + (tick 2)" :> T_op("plus", T_tick(T_num("1")), T_tick(T_num("2"))))
 @@ ("[tick 1, tick 2]" :> T_array(<<T_tick(T_num("1")), T_tick(T_num("2"))>>))

HostCallNames == {"tick", "first2", "first_opt", "count_all", "count_rest", "nan_fn"}
HostCallArgs == <<T_num("1"), T_num("2"), T_num("3")>>
HostCallText(f, n) ==
    f \o (IF n >= 1 THEN " 1" ELSE "") \o (IF n >= 2 THEN " 2" ELSE "")
      \o (IF n >= 3 THEN " 3" ELSE "")
HostCallTrees ==
    [text \in {HostCallText(f, n) : f \in HostCallNames, n \in 1..3} |->
        LET f == CHOOSE g \in HostCallNames : \E n \in 1..3 : text = HostCallText(g, n)
            n == CHOOSE m \in 1..3 : text = HostCallText(f, m)
        IN T_call(T_name(f), SubSeq(HostCallArgs, 1, n))]
 @@ ("tick nosuch" :> T_call(T_name("tick"), <<T_name("nosuch")>>))
 @@ ("tick count" :> T_call(T_name("tick"), <<T_name("count")>>))
 @@ ("first2 1 nosuch" :> T_call(T_name("first2"), <<T_num("1"), T_name("nosuch")>>))
 @@ ("plus 1 2" :> T_call(T_name("plus"), <<T_num("1"), T_num("2")>>))
 @@ ("tick" :> T_name("tick"))

\* Calls whose head is not a name.
HeadTrees ==
    ("@ (tick 1)" :> T_call(T_at, <<T_tick(T_num("1"))>>))
 @@ ("(tick 1) (tick 2)" :> T_call(T_tick(T_num("1")), <<T_tick(T_num("2"))>>))
 @@ ("(tick count) [1]" :>
        T_call(T_tick(T_name("count")), <<T_array(<<T_num("1")>>)>>))

\* Calls of built-ins that fail, and names nothing binds.
ErrorTrees ==
    ("count @" :> T_call(T_name("count"), <<T_at>>))
 @@ ("count @ @" :> T_call(T_name("count"), <<T_at, T_at>>))
 @@ ("@ - 1" :> T_op("minus", T_at, T_num("1")))
 @@ ("nosuch" :> T_name("nosuch"))
 @@ ("flatten @" :> T_call(T_name("flatten"), <<T_at>>))
 @@ ("sum @" :> T_call(T_name("sum"), <<T_at>>))

\* Sorting, grouping and ordering.
T_first == T_index(T_at, <<T_num("0")>>)
T_second == T_index(T_at, <<T_num("1")>>)
SortTrees ==
    ("sort @" :> T_call(T_name("sort"), <<T_at>>))
 @@ ("sortby k @" :> T_call(T_name("sortby"), <<T_name("k"), T_at>>))
 @@ ("sortby (tick k) @" :> T_call(T_name("sortby"), <<T_tick(T_name("k")), T_at>>))
 @@ ("sortby @ @" :> T_call(T_name("sortby"), <<T_at, T_at>>))
 @@ ("groupby k @" :> T_call(T_name("groupby"), <<T_name("k"), T_at>>))
 @@ ("groupby (tick k) @" :> T_call(T_name("groupby"), <<T_tick(T_name("k")), T_at>>))
 @@ ("groupby @ @" :> T_call(T_name("groupby"), <<T_at, T_at>>))
 @@ ("@[0] < @[1]" :> T_op("lt", T_first, T_second))
 @@ ("@[0] <= @[1]" :> T_op("lte", T_first, T_second))
 @@ ("@[0] > @[1]" :> T_op("gt", T_first, T_second))
 @@ ("@[0] >= @[1]" :> T_op("gte", T_first, T_second))

\* Indexing and slicing a field of the input; equality and `if` on its fields.
T_field(name) == T_op("dot", T_at, T_name(name))
T_colon == Token("WCOLON", ":")
T_neg(a) == Tree("neg", <<a>>)
IndexTrees ==
    ("@.x[@.i]" :> T_index(T_field("x"), <<T_field("i")>>))
 @@ ("@.x[-1]" :> T_index(T_field("x"), <<T_neg(T_num("1"))>>))
 @@ ("@.x[@.i:@.j]" :> T_index(T_field("x"), <<T_field("i"), T_colon, T_field("j")>>))
 @@ ("@.x[@.i:]" :> T_index(T_field("x"), <<T_field("i"), T_colon>>))
 @@ ("@.x[:@.j]" :> T_index(T_field("x"), <<T_colon, T_field("j")>>))
 @@ ("@.x[1:-1]" :> T_index(T_field("x"), <<T_num("1"), T_colon, T_neg(T_num("1"))>>))

EqualityTrees ==
    ("@.a == @.b" :> T_op("eq", T_field("a"), T_field("b")))
 @@ ("@.a != @.b" :> T_op("neq", T_field("a"), T_field("b")))
 @@ ("tick == tick" :> T_op("eq", T_name("tick"), T_name("tick")))
 @@ ("tick == tick2" :> T_op("eq", T_name("tick"), T_name("tick2")))
 @@ ("tick == count" :> T_op("eq", T_name("tick"), T_name("count")))
 @@ ("count == count" :> T_op("eq", T_name("count"), T_name("count")))
 @@ ("count == keys" :> T_op("eq", T_name("count"), T_name("keys")))
 @@ ("plus != count" :> T_op("neq", T_name("plus"), T_name("count")))
 @@ ("if (tick @.a) (tick 1) (tick 2)" :>
        T_call(T_name("if"), <<T_tick(T_field("a")), T_tick(T_num("1")),
                               T_tick(T_num("2"))>>))
 @@ ("if @.a (tick 1) nosuch" :>
        T_call(T_name("if"), <<T_field("a"), T_tick(T_num("1")), T_name("nosuch")>>))
 @@ ("if @.a nosuch (tick 2)" :>
        T_call(T_name("if"), <<T_field("a"), T_name("nosuch"), T_tick(T_num("2"))>>))
 @@ ("if @.a @.b" :> T_call(T_name("if"), <<T_field("a"), T_field("b")>>))

\* Sequences of items of the input that satisfy the predicates in turn.
SequenceTrees ==
    ("sequence a @" :> T_call(T_name("sequence"), <<T_name("a"), T_at>>))
 @@ ("sequence a b @" :> T_call(T_name("sequence"), <<T_name("a"), T_name("b"), T_at>>))
 @@ ("sequence b b @" :> T_call(T_name("sequence"), <<T_name("b"), T_name("b"), T_at>>))
 @@ ("sequence a b a @" :>
        T_call(T_name("sequence"), <<T_name("a"), T_name("b"), T_name("a"), T_at>>))
 @@ ("sequence @" :> T_call(T_name("sequence"), <<T_at>>))

\* Replacing a String or Regex pattern in a field of the input.
T_regex(args) == T_call(T_name("regex"), args)
T_replace(pattern) ==
    T_call(T_name("replace"), <<pattern, T_field("r"), T_field("t")>>)
ReplaceTrees ==
    ("replace @.p @.r @.t" :> T_replace(T_field("p")))
 @@ ("replace (regex @.p) @.r @.t" :> T_replace(T_regex(<<T_field("p")>>)))
 @@ ("replace (regex @.p \"g\") @.r @.t" :>
        T_replace(T_regex(<<T_field("p"), T_str("\"g\"")>>)))
 @@ ("replace (regex @.p \"i\") @.r @.t" :>
        T_replace(T_regex(<<T_field("p"), T_str("\"i\"")>>)))
 @@ ("replace (regex @.p \"gi\") @.r @.t" :>
        T_replace(T_regex(<<T_field("p"), T_str("\"gi\"")>>)))

\* Queries whose result holds, or does not hold, a Function or a Regex.
T_object(entries) == Tree("object", entries)
ExportTrees ==
    ("count" :> T_name("count"))
 @@ ("[count]" :> T_array(<<T_name("count")>>))
 @@ ("[1, [tick]]" :> T_array(<<T_num("1"), T_array(<<T_name("tick")>>)>>))
 @@ ("{a: count}" :> T_object(<<T_entry(T_name("a"), T_name("count"))>>))
 @@ ("{a: {a: [@, plus]}}" :>
        T_object(<<T_entry(T_name("a"),
                           T_object(<<T_entry(T_name("a"),
                                              T_array(<<T_at, T_name("plus")>>))>>))>>))
 @@ ("regex \"a\"" :> T_regex(<<T_str("\"a\"")>>))
 @@ ("[regex \"a\" \"g\"]" :> T_array(<<T_regex(<<T_str("\"a\""), T_str("\"g\"")>>)>>))
 @@ ("{a: [regex \"a\"]}" :>
        T_object(<<T_entry(T_name("a"), T_array(<<T_regex(<<T_str("\"a\"")>>)>>))>>))
 @@ ("[1, \"a\"]" :> T_array(<<T_num("1"), T_str("\"a\"")>>))
 @@ ("{a: [@, {a: @}]}" :>
        T_object(<<T_entry(T_name("a"),
                           T_array(<<T_at, T_object(<<T_entry(T_name("a"), T_at)>>)>>))>>))
 @@ ("[@, 1 == 1, @.a]" :>
        T_array(<<T_at, T_op("eq", T_num("1"), T_num("1")), T_field("a")>>))

\* Pipes with a stage that is not a call, and one with calls only.
T_pipe(stages) == Tree("pipe", stages)
StageTrees ==
    ("@ | keys" :> T_pipe(<<T_at, T_name("keys")>>))
 @@ ("@ | 1" :> T_pipe(<<T_at, T_num("1")>>))
 @@ ("@ | [@]" :> T_pipe(<<T_at, T_array(<<T_at>>)>>))
 @@ ("@ | {a: @}" :> T_pipe(<<T_at, T_object(<<T_entry(T_name("a"), T_at)>>)>>))
 @@ ("@ | first2 1 | keys" :>
        T_pipe(<<T_at, T_call(T_name("first2"), <<T_num("1")>>), T_name("keys")>>))
 @@ ("@ | keys | first2 1" :>
        T_pipe(<<T_at, T_name("keys"), T_call(T_name("first2"), <<T_num("1")>>)>>))
 @@ ("@ | nosuch 1 | keys" :>
        T_pipe(<<T_at, T_call(T_name("nosuch"), <<T_num("1")>>), T_name("keys")>>))
 @@ ("@ | first2 1 | first2 2 | @" :>
        T_pipe(<<T_at, T_call(T_name("first2"), <<T_num("1")>>),
                 T_call(T_name("first2"), <<T_num("2")>>), T_at>>))
 @@ ("@ | first2 1 | apply @" :>
        T_pipe(<<T_at, T_call(T_name("first2"), <<T_num("1")>>),
                 T_call(T_name("apply"), <<T_at>>)>>))

\* mistql_parser.parse(raw) for the query strings of the model.
InstanceTrees ==
    ShortCircuitTrees @@ PipeTrees @@ OperatorTrees @@ OrderTrees @@ HostCallTrees
    @@ HeadTrees @@ ErrorTrees
ParseTrees ==
    InstanceTrees @@ SortTrees @@ IndexTrees @@ EqualityTrees @@ SequenceTrees
    @@ ReplaceTrees @@ ExportTrees @@ StageTrees
Queries == DOMAIN InstanceTrees
SortQueries == DOMAIN SortTrees
IndexQueries == DOMAIN IndexTrees
EqualityQueries == DOMAIN EqualityTrees
SequenceQueries == DOMAIN SequenceTrees
ReplaceQueries == DOMAIN ReplaceTrees
ExportQueries == DOMAIN ExportTrees
StageQueries == DOMAIN StageTrees
parse(raw) == from_lark(ParseTrees[raw])

\* Host inputs of the queries.
D(ks, vs) == PyDict([i \in DOMAIN ks |-> [key |-> ks[i], value |-> vs[i]]])
Inputs ==
    {PyNone, PyInt(0), PyInt(1), PyStr("a"), PyList(<<>>), PyList(<<PyInt(1), PyInt(2)>>),
     D(<<"a">>, <<PyInt(1)>>), D(<<"@">>, <<PyInt(1)>>),
     D(<<"+", "a">>, <<PyInt(1), PyInt(2)>>), D(<<"index", ".">>, <<PyInt(1), PyInt(2)>>),
     D(<<"k">>, <<PyInt(5)>>), D(<<"k">>, <<D(<<"k">>, <<PyInt(1)>>)>>),
     D(<<"||", "&&", "tick">>, <<PyInt(1), PyInt(2), PyInt(3)>>),
     PyList(<<D(<<"a">>, <<PyInt(1)>>), PyList(<<PyInt(2)>>)>>)}

\* Host lists to sort and to group: scalars of every variant, and objects
\* with a key k to sort by and a key n that tells them apart.
SortScalars ==
    {PyNone, PyBool(FALSE), PyBool(TRUE), PyInt(0), PyInt(1), PyStr("a"), PyStr("ab")}
SortObjects ==
    {D(<<"k", "n">>, <<PyInt(0), PyInt(0)>>), D(<<"k", "n">>, <<PyInt(0), PyInt(1)>>),
     D(<<"k", "n">>, <<PyInt(1), PyInt(0)>>), D(<<"k", "n">>, <<PyStr("0"), PyInt(0)>>)}
SortInputs ==
    {PyList(items) : items \in SeqsUpTo(SortScalars, MaxItems)}
    \cup {PyList(items) : items \in SeqsUpTo(SortObjects, MaxItems)}

\* Host inputs {i, j, x} to index x by i and to slice it from i to j: lists
\* and strings of up to MaxLen items, and bounds on both sides of them.
IndexedItems == <<PyInt(5), PyInt(6), PyInt(7), PyInt(8)>>
IndexedText == "abcd"
Indexed ==
    {PyList(SubSeq(IndexedItems, 1, n)) : n \in 0..MaxLen}
    \cup {PyStr(SubSeq(IndexedText, 1, n)) : n \in 0..MaxLen}
    \cup {D(<<"k", "1">>, <<PyInt(1), PyInt(2)>>), PyNone, PyInt(7)}
Indices ==
    {PyInt(n) : n \in (-MaxLen - 1)..(MaxLen + 1)}
    \cup {PyNone, PyFloat(Number(0, 0, 1)), PyStr("k"), PyStr("z")}
IndexInputs ==
    {D(<<"i", "j", "x">>, <<i, j, x>>) : i \in Indices, j \in Indices, x \in Indexed}

\* Host inputs {a, b} to compare a with b and to branch on a.
EqValues ==
    {PyNone, PyBool(FALSE), PyBool(TRUE), PyInt(0), PyInt(1), PyStr(""), PyStr("a"),
     PyList(<<>>), PyList(<<PyInt(0)>>), PyList(<<PyInt(0), PyInt(1)>>),
     PyList(<<PyList(<<PyInt(0)>>)>>), D(<<>>, <<>>),
     D(<<"a", "b">>, <<PyInt(0), PyInt(1)>>), D(<<"b", "a">>, <<PyInt(1), PyInt(0)>>),
     D(<<"a", "b">>, <<PyInt(1), PyInt(0)>>), D(<<"a">>, <<PyInt(0)>>)}
EqInputs == {D(<<"a", "b">>, <<a, b>>) : a \in EqValues, b \in EqValues}

\* Host inputs for `sequence`: lists of items {a, b} with a truthy or falsy
\* a and b, and an input that is no list.
SequenceItems ==
    {D(<<"a", "b">>, <<a, b>>) : a \in {PyInt(0), PyInt(1)}, b \in {PyStr(""), PyStr("y")}}
SequenceInputs ==
    {PyList(items) : items \in SeqsUpTo(SequenceItems, MaxItems)} \cup {PyNone}

\* Host inputs {p, r, t} to replace the pattern p by r in the target t.
Patterns == {"", "a", "ab", "aa", "a.", "."}
Replacements == {"", "x", "aa"}
Targets == {"", "a", "aa", "aaa", "aba", "abab", "a.a", "ba.b"}
ReplaceInputs ==
    {D(<<"p", "r", "t">>, <<PyStr(p), PyStr(r), PyStr(t)>>) :
        p \in Patterns, r \in Replacements, t \in Targets}
    \cup {D(<<"p", "r", "t">>, <<PyStr("a"), PyStr("x"), PyInt(7)>>)}

\* The extras a MistQLInstance is built with.
E(key, value) == [key |-> key, value |-> value]
EffectsExtras ==
    <<E("tick", PyFunc("tick", 1, 0, FALSE, 0)),
      E("first2", PyFunc("first2", 2, 0, FALSE, 0)),
      E("first_opt", PyFunc("first_opt", 2, 1, FALSE, 0)),
      E("count_all", PyFunc("count_all", 0, 0, TRUE, 0)),
      E("count_rest", PyFunc("count_rest", 1, 0, TRUE, 0)),
      E("nan_fn", PyFunc("nan_fn", 1, 0, FALSE, 0)),
      E("plus", BuiltinFunction("+"))>>
ExtrasConfigs ==
    {<<>>, EffectsExtras,
     EffectsExtras \o <<E("kw", PyFunc("kw", 1, 0, FALSE, 1))>>,
     <<E("kwvar", PyFunc("kwvar", 0, 0, TRUE, 1))>> \o EffectsExtras,
     <<E("tick", PyFunc("tick", 1, 0, FALSE, 0)), E("zero", PyFunc("zero", 0, 0, FALSE, 0))>>}

\* The host extras, with the callable of `tick` given a second name.
ValueExtras == EffectsExtras \o <<E("tick2", PyFunc("tick", 1, 0, FALSE, 0))>>
\* No query asked yet.
NoOutcome == [ok |-> FALSE, error |-> "", value |-> PyNone, calls |-> <<>>]

InstIdle ==
    /\ inst_extras = <<>>
    /\ inst_lazy = FALSE
    /\ parse_cache = <<>>
    /\ q_query = "@"
    /\ q_data = PyNone
    /\ q_done = FALSE
    /\ q_outcome = NoOutcome
    /\ parse_hit = FALSE


\* No lazy value under observation.
NoResult == [kind |-> "none"]
LazyIdle ==
    /\ lz_host = PyNone
    /\ lz_value = [set |-> FALSE, items |-> <<>>]
    /\ lz_subvalue_cache = <<>>
    /\ lz_converted = 0
    /\ lz_op = <<"none">>
    /\ lz_result = NoResult
    /\ lz_eager = NoResult


\* No scope stack under observation.
NoLookup == [name |-> "", absolute |-> FALSE]
NotLooked == [ok |-> FALSE, value |-> Null]
StackIdle ==
    /\ st_stack = <<>>
    /\ st_callers = <<>>
    /\ st_lookup = NoLookup
    /\ st_found = NotLooked
\* Host values offered to the wall: JSON-shaped, plus the non-finite floats.
HostLeaves ==
    {PyNone, PyBool(TRUE), PyBool(FALSE), PyInt(0), PyInt(1), PyInt(-1),
     PyBigInt(0), PyBigInt(1), PyBigInt(2), PyBigInt(3),
     PyFloat(Number(0, 0, 1)), PyFloat(Number(0, 1, 0)),
     PyFloat(NonFinite("nan")), PyFloat(NonFinite("inf")),
     PyFloat(NonFinite("-inf")), PyStr(""), PyStr("a")}
HostInner ==
    {PyNone, PyBool(TRUE), PyInt(1), PyBigInt(1), PyFloat(NonFinite("nan")),
     PyStr("a"), PyList(<<>>), PyList(<<PyInt(1)>>),
     PyDict(<<[key |-> "a", value |-> PyFloat(NonFinite("inf"))]>>)}
HostKeySeqs == {ks \in SeqsUpTo({"a", "b", "@"}, MaxLen) :
                  \A i, j \in DOMAIN ks : i # j => ks[i] # ks[j]}
HostValues ==
    HostLeaves
    \cup {PyList(s) : s \in SeqsUpTo(HostInner, MaxLen)}
    \cup UNION {{PyDict([i \in DOMAIN ks |-> [key |-> ks[i], value |-> f[i]]]) :
                    f \in [DOMAIN ks -> HostInner]} : ks \in HostKeySeqs}

\* A host value crosses the wall inwards and the result crosses it outwards,
\* as MistQLInstance.query does around the evaluation of `@`.
CrossWall ==
    /\ ~wall_done
    /\ wall_done' = TRUE
    /\ wall_rv' = input_garden_wall(wall_in, wall_lazy)
    /\ wall_out' = output_garden_wall(input_garden_wall(wall_in, wall_lazy))
    /\ UNCHANGED <<wall_in, wall_lazy, inst_vars, lazy_vars, stack_vars>>

WallIdle ==
    /\ wall_in = PyNone
    /\ wall_lazy = FALSE
    /\ wall_done = FALSE
    /\ wall_rv = Null
    /\ wall_out = PyNone

WallInit ==
    /\ wall_in \in HostValues
    /\ wall_lazy \in BOOLEAN
    /\ wall_done = FALSE
    /\ wall_rv = Null
    /\ wall_out = PyNone
    /\ InstIdle
    /\ LazyIdle
    /\ StackIdle

WallNext == CrossWall

SpecWall == WallInit /\ [][WallNext]_vars

(***************************************************************************)
(* MistQLInstance.query as an action                                       *)
(***************************************************************************)

\* The instance after query(q, d) returned `out`: the cache holds the AST
\* object as the call left it, in front of the entries in `rest`.
Answered(q, hit, rest, out) ==
    /\ parse_hit' = hit
    /\ parse_cache' = lru_trim(<<[query |-> q, ast |-> out.ast]>> \o rest,
                               parse_lru_cache_size)
    /\ q_outcome' = [ok |-> out.ok, error |-> out.error, value |-> out.value,
                     calls |-> out.calls]

\* query(q, d) on the instance: the cached parse, the walls and the
\* evaluation.
Answer(q, d) ==
    LET hit == CacheHit(parse_cache, q)
        ast == IF hit THEN parse_cache[CacheIndex(parse_cache, q)].ast ELSE parse(q)
        rest == IF hit THEN Without(parse_cache, CacheIndex(parse_cache, q))
                ELSE parse_cache
    IN Answered(q, hit, rest, instance_query(ast, d, inst_extras, inst_lazy))

\* A MistQLInstance is built and asked one query.
Query ==
    /\ ~q_done
    /\ Answer(q_query, q_data)
    /\ q_done' = TRUE
    /\ UNCHANGED <<inst_extras, inst_lazy, q_query, q_data, wall_vars, lazy_vars, stack_vars>>

\* A MistQLInstance is asked one query after the other.
CacheQueries ==
    {"@", "@ | apply (@ + 1)", "@ | map (@ + 1) | index 0", "@ | first2 1",
     "(tick 1) || (tick 2)"}
CacheInputs == {PyInt(1), PyList(<<PyInt(1), PyInt(2)>>)}
QueryAgain ==
    \E q \in CacheQueries, d \in CacheInputs :
        /\ q_query' = q
        /\ q_data' = d
        /\ Answer(q, d)
        /\ q_done' = TRUE
        /\ UNCHANGED <<inst_extras, inst_lazy, wall_vars, lazy_vars, stack_vars>>

Init ==
    /\ inst_extras \in ExtrasConfigs
    /\ inst_lazy \in BOOLEAN
    /\ parse_cache = <<>>
    /\ q_query \in Queries
    /\ q_data \in Inputs
    /\ q_done = FALSE
    /\ q_outcome = NoOutcome
    /\ parse_hit = FALSE
    /\ WallIdle
    /\ LazyIdle
    /\ StackIdle

Next == Query

Spec == Init /\ [][Next]_vars

CacheInit ==
    /\ inst_extras = EffectsExtras
    /\ inst_lazy = FALSE
    /\ parse_cache = <<>>
    /\ q_query = "@"
    /\ q_data = PyNone
    /\ q_done = FALSE
    /\ q_outcome = NoOutcome
    /\ parse_hit = FALSE
    /\ WallIdle
    /\ LazyIdle
    /\ StackIdle

CacheNext == QueryAgain

SpecCache == CacheInit /\ [][CacheNext]_vars


\* A MistQLInstance with the host extras is asked to sort, group or order.
SortInit ==
    /\ inst_extras = EffectsExtras
    /\ inst_lazy \in BOOLEAN
    /\ parse_cache = <<>>
    /\ q_query \in SortQueries
    /\ q_data \in SortInputs
    /\ q_done = FALSE
    /\ q_outcome = NoOutcome
    /\ parse_hit = FALSE
    /\ WallIdle
    /\ LazyIdle
    /\ StackIdle

SortNext == Query

SpecSort == SortInit /\ [][SortNext]_vars

\* A MistQLInstance is asked to index, compare or branch on its input.
ValueInit ==
    /\ inst_extras = ValueExtras
    /\ inst_lazy \in BOOLEAN
    /\ parse_cache = <<>>
    /\ \/ q_query \in IndexQueries /\ q_data \in IndexInputs
       \/ q_query \in EqualityQueries /\ q_data \in EqInputs
    /\ q_done = FALSE
    /\ q_outcome = NoOutcome
    /\ parse_hit = FALSE
    /\ WallIdle
    /\ LazyIdle
    /\ StackIdle

ValueNext == Query

SpecValues == ValueInit /\ [][ValueNext]_vars

\* A MistQLInstance is asked for sequences, replacements, values that cannot
\* leave the language, and pipes.
BuiltinsInit ==
    /\ inst_extras = EffectsExtras
    /\ inst_lazy \in BOOLEAN
    /\ parse_cache = <<>>
    /\ \/ q_query \in SequenceQueries /\ q_data \in SequenceInputs
       \/ q_query \in ReplaceQueries /\ q_data \in ReplaceInputs
       \/ q_query \in ExportQueries /\ q_data \in Inputs
       \/ q_query \in StageQueries /\ q_data \in Inputs
    /\ q_done = FALSE
    /\ q_outcome = NoOutcome
    /\ parse_hit = FALSE
    /\ WallIdle
    /\ LazyIdle
    /\ StackIdle

BuiltinsNext == Query

SpecBuiltins == BuiltinsInit /\ [][BuiltinsNext]_vars
(***************************************************************************)
(* One LazyRuntimeValue and its eager counterpart (runtime_value.py)       *)
(***************************************************************************)
\* A Python object an operation hands back: a RuntimeValue and which object
\* it is (id 0: an object of the eager value).
Obj(id, rv) == [id |-> id, rv |-> rv]
R_rv(id, rv) == [kind |-> "rv", obj |-> Obj(id, rv)]
R_list(items) == [kind |-> "list", items |-> items]
R_dict(entries) == [kind |-> "dict", entries |-> entries]
R_int(n) == [kind |-> "int", n |-> n]
R_keys(ks) == [kind |-> "keys", keys |-> ks]
R_raise(error) == [kind |-> "raise", error |-> error]

\* list[i] of Python: the 1-based position, 0 when i is out of range.
PyPosition(n, i) ==
    LET k == IF i < 0 THEN i + n ELSE i
    IN IF 0 <= k /\ k < n THEN k + 1 ELSE 0

\* The methods of RuntimeValue, on the eager value e.
RuntimeValue_access(e, name) == R_rv(0, access(e, name))
RuntimeValue_index(e, i) ==
    IF e.type = "array"
    THEN IF PyPosition(Len(e.value), i) = 0 THEN R_raise("IndexError")
         ELSE R_rv(0, e.value[PyPosition(Len(e.value), i)])
    ELSE R_raise("KeyError")
RuntimeValue_index_two(e, i, j) ==
    R_list([k \in DOMAIN PySlice(e.value, i, j) |-> Obj(0, PySlice(e.value, i, j)[k])])
RuntimeValue_len(e) == R_int(Len(e.value))
RuntimeValue_keys(e) == R_keys(keys_of(e))
RuntimeValue_value(e) ==
    IF e.type = "array" THEN R_list([k \in DOMAIN e.value |-> Obj(0, e.value[k])])
    ELSE R_dict([k \in DOMAIN e.value |->
                   [key |-> e.value[k].key, value |-> Obj(0, e.value[k].value)]])
RuntimeValue___eq__(a, b) == R_rv(0, RuntimeValue_of(PyBool(eq(a, b)), FALSE))

\* The lazy value under observation and the eager value of the same host.
Lazy == RuntimeValue_of(lz_host, TRUE)
Eager == RuntimeValue_of(lz_host, FALSE)
StrKey(s) == [str |-> s]
IntKey(i) == [int |-> i]

\* The `value` property: the producer runs when _value is None; its children
\* are new objects, numbered on from `made`.
produced(made) ==
    IF lz_host.py = "list"
    THEN [k \in DOMAIN lz_host.v |->
            Obj(made + k, RuntimeValue_of(lz_host.v[k], TRUE))]
    ELSE [k \in DOMAIN lz_host.v |->
            [key |-> lz_host.v[k].key,
             value |-> Obj(made + k, RuntimeValue_of(lz_host.v[k].value, TRUE))]]
value_after == IF lz_value.set THEN lz_value
               ELSE [set |-> TRUE, items |-> produced(lz_converted)]
value_cost == IF lz_value.set THEN 0 ELSE Len(lz_host.v)

Observed(op, result, eager) ==
    /\ lz_op' = op
    /\ lz_result' = result
    /\ lz_eager' = eager
    /\ UNCHANGED <<lz_host, inst_vars, wall_vars, stack_vars>>

\* Faulty variant of Cached: the child is converted at every call.
Cached_converting(key, child, op, eager) ==
    /\ lz_converted < MaxConverted
    /\ lz_converted' = lz_converted + 1
    /\ lz_subvalue_cache' =
          IF DictHas(lz_subvalue_cache, key) THEN lz_subvalue_cache
          ELSE Append(lz_subvalue_cache,
                      [key |-> key,
                       value |-> Obj(lz_converted + 1, RuntimeValue_of(child, TRUE))])
    /\ Observed(op, R_rv(lz_converted + 1, RuntimeValue_of(child, TRUE)), eager)
    /\ UNCHANGED lz_value
\* self._subvalue_cache[key] = self.of(child, lazy=True) when key is not cached.
Cached(key, child, op, eager) ==
    IF DictHas(lz_subvalue_cache, key)
    THEN /\ Observed(op, R_rv(DictGet(lz_subvalue_cache, key).id,
                              DictGet(lz_subvalue_cache, key).rv), eager)
         /\ UNCHANGED <<lz_value, lz_subvalue_cache, lz_converted>>
    ELSE /\ lz_converted < MaxConverted
         /\ lz_converted' = lz_converted + 1
         /\ lz_subvalue_cache' =
               Append(lz_subvalue_cache,
                      [key |-> key,
                       value |-> Obj(lz_converted + 1, RuntimeValue_of(child, TRUE))])
         /\ Observed(op, R_rv(lz_converted + 1, RuntimeValue_of(child, TRUE)), eager)
         /\ UNCHANGED lz_value

LazyAccess(name) ==
    IF lz_host.py = "dict" /\ DictHas(lz_host.v, name)
    THEN Cached(StrKey(name), DictGet(lz_host.v, name), <<"access", name>>,
                RuntimeValue_access(Eager, name))
    ELSE /\ Observed(<<"access", name>>, R_rv(0, Null),
                     RuntimeValue_access(Eager, name))
         /\ UNCHANGED <<lz_value, lz_subvalue_cache, lz_converted>>

LazyIndex(i) ==
    IF DictHas(lz_subvalue_cache, IntKey(i))
       \/ (lz_host.py = "list" /\ PyPosition(Len(lz_host.v), i) # 0)
    THEN Cached(IntKey(i), lz_host.v[PyPosition(Len(lz_host.v), i)], <<"index", i>>,
                RuntimeValue_index(Eager, i))
    ELSE /\ Observed(<<"index", i>>,
                     R_raise(IF lz_host.py = "list" THEN "IndexError" ELSE "KeyError"),
                     RuntimeValue_index(Eager, i))
         /\ UNCHANGED <<lz_value, lz_subvalue_cache, lz_converted>>

\* index(i, j): self.of(self._python_value[i:j], lazy=True), never cached.
LazyIndexTwo(i, j) ==
    /\ lz_host.py = "list"
    /\ lz_converted < MaxConverted
    /\ lz_converted' = lz_converted + 1
    /\ Observed(<<"index", i, j>>,
                R_rv(lz_converted + 1,
                     RuntimeValue_of(PyList(PySlice(lz_host.v, i, j)), TRUE)),
                RuntimeValue_index_two(Eager, i, j))
    /\ UNCHANGED <<lz_value, lz_subvalue_cache>>

LazyLen ==
    /\ Observed(<<"len">>, R_int(Len(lz_host.v)), RuntimeValue_len(Eager))
    /\ UNCHANGED <<lz_value, lz_subvalue_cache, lz_converted>>

LazyKeys ==
    /\ Observed(<<"keys">>,
                R_keys(IF lz_host.py = "dict" THEN DictKeys(lz_host.v) ELSE <<>>),
                RuntimeValue_keys(Eager))
    /\ UNCHANGED <<lz_value, lz_subvalue_cache, lz_converted>>

LazyValue ==
    /\ lz_converted + value_cost <= MaxConverted
    /\ lz_value' = value_after
    /\ lz_converted' = lz_converted + value_cost
    /\ Observed(<<"value">>,
                IF lz_host.py = "list" THEN R_list(value_after.items)
                ELSE R_dict(value_after.items),
                RuntimeValue_value(Eager))
    /\ UNCHANGED lz_subvalue_cache

\* self == other: RuntimeValue.eq reads self.value when the types agree.
LazyOthers == <<Eager, Lazy, Null, RuntimeValue_of(PyList(<<PyInt(1)>>), FALSE),
                RuntimeValue_of(D(<<"a">>, <<PyInt(2)>>), TRUE)>>
LazyEq(other) ==
    LET reads == other.type = Lazy.type
    IN /\ reads => lz_converted + value_cost <= MaxConverted
       /\ lz_value' = IF reads THEN value_after ELSE lz_value
       /\ lz_converted' = IF reads THEN lz_converted + value_cost ELSE lz_converted
       /\ Observed(<<"==", other>>, R_rv(0, RuntimeValue_of(PyBool(eq(Lazy, other)), FALSE)),
                   RuntimeValue___eq__(Eager, other))
       /\ UNCHANGED lz_subvalue_cache

LazyHosts ==
    {PyList(<<>>), PyList(<<PyInt(1), PyInt(2)>>),
     PyList(<<D(<<"a">>, <<PyInt(1)>>), PyList(<<PyInt(2)>>)>>),
     PyDict(<<>>), D(<<"a", "b">>, <<PyInt(1), PyList(<<PyInt(1)>>)>>),
     D(<<"a">>, <<D(<<"b">>, <<PyInt(1)>>)>>)}
LazyKeyNames == {"a", "b", "z"}
LazyIndices == -1..2

LazyInit ==
    /\ lz_host \in LazyHosts
    /\ lz_value = [set |-> FALSE, items |-> <<>>]
    /\ lz_subvalue_cache = <<>>
    /\ lz_converted = 0
    /\ lz_op = <<"none">>
    /\ lz_result = NoResult
    /\ lz_eager = NoResult
    /\ InstIdle
    /\ WallIdle
    /\ StackIdle

LazyNext ==
    \/ \E name \in LazyKeyNames : LazyAccess(name)
    \/ \E i \in LazyIndices : LazyIndex(i)
    \/ \E i, j \in LazyIndices : LazyIndexTwo(i, j)
    \/ LazyLen
    \/ LazyKeys
    \/ LazyValue
    \/ \E n \in DOMAIN LazyOthers : LazyEq(LazyOthers[n])

SpecLazy == LazyInit /\ [][LazyNext]_vars


(***************************************************************************)
(* The scope stack on its own: the initial stack of an input, the pushes   *)
(* of the built-ins that introduce a focus, their returns, and lookups.    *)
(***************************************************************************)
\* Host inputs, extras, focus values and names of the stack specification.
StackInputs ==
    {PyInt(1), D(<<"a">>, <<PyInt(1)>>),
     D(<<"$", "count">>, <<PyInt(1), PyInt(2)>>), D(<<"@">>, <<PyInt(1)>>)}
StackExtras ==
    {<<>>,
     <<E("tick", PyFunc("tick", 1, 0, FALSE, 0)), E("plus", BuiltinFunction("+"))>>,
     <<E("@", PyFunc("first", 1, 0, FALSE, 0)), E("count", PyFunc("count_all", 0, 0, TRUE, 0))>>}
StackFocuses ==
    <<Num(7),
      Object(<<[key |-> "a", value |-> Num(2)]>>),
      Object(<<[key |-> "@", value |-> Num(3)]>>),
      Object(<<[key |-> "$", value |-> Num(4)], [key |-> "count", value |-> Null]>>)>>
StackNames == {"@", "$", "count", "zz"}

\* find_in_stack(stack, name, absolute), as execute does for a RefExpression.
Lookup(name, absolute) ==
    /\ st_lookup' = [name |-> name, absolute |-> absolute]
    /\ st_found' = find_in_stack(st_stack, name, absolute)
    /\ UNCHANGED <<st_stack, st_callers, inst_vars, wall_vars, lazy_vars>>

\* A built-in evaluates a sub-expression with `value` as the focus: it calls
\* add_runtime_value_to_stack(value, stack) and hands the result to execute;
\* `before` is the stack it was given, `held` that stack after the call.
PushFocus(value) ==
    /\ Len(st_stack) < MaxDepth
    /\ st_callers' = Append(st_callers,
                            [before |-> st_stack, focus |-> value,
                             held |-> stack_after_push(value, st_stack)])
    /\ st_stack' = add_runtime_value_to_stack(value, st_stack)
    /\ UNCHANGED <<st_lookup, st_found, inst_vars, wall_vars, lazy_vars>>

\* The sub-expression returns (or raises): the caller goes on with its stack.
Return ==
    /\ st_callers # <<>>
    /\ st_stack' = st_callers[Len(st_callers)].held
    /\ st_callers' = SubSeq(st_callers, 1, Len(st_callers) - 1)
    /\ UNCHANGED <<st_lookup, st_found, inst_vars, wall_vars, lazy_vars>>

StackInit ==
    /\ inst_extras \in StackExtras
    /\ inst_lazy = FALSE
    /\ parse_cache = <<>>
    /\ q_query = "@"
    /\ q_data \in StackInputs
    /\ q_done = FALSE
    /\ q_outcome = NoOutcome
    /\ parse_hit = FALSE
    /\ WallIdle
    /\ LazyIdle
    /\ st_stack = build_initial_stack(input_garden_wall(q_data, inst_lazy), builtins,
                                      inst_extras).stack
    /\ st_callers = <<>>
    /\ st_lookup = NoLookup
    /\ st_found = NotLooked
StackNext ==
    \/ \E name \in StackNames, absolute \in BOOLEAN : Lookup(name, absolute)
    \/ \E i \in DOMAIN StackFocuses : PushFocus(StackFocuses[i])
    \/ Return
SpecStack == StackInit /\ [][StackNext]_vars
(***************************************************************************)
(* C6: garden-wall round trip                                              *)
(***************************************************************************)
RECURSIVE HasNonFinite(_)
HasNonFinite(v) ==
    CASE v.py = "float" -> v.v.special \in {"nan", "inf", "-inf"}
      [] v.py = "list" -> \E i \in DOMAIN v.v : HasNonFinite(v.v[i])
      [] v.py = "dict" -> \E i \in DOMAIN v.v : HasNonFinite(v.v[i].value)
      [] OTHER -> FALSE

\* Every int in v is one a double holds exactly (all of magnitude <= 2^53 are).
RECURSIVE IntsExact(_)
IntsExact(v) ==
    CASE v.py = "int" -> v.v.big = 0 \/ v.v.whole % 2 = 0
      [] v.py = "list" -> \A i \in DOMAIN v.v : IntsExact(v.v[i])
      [] v.py = "dict" -> \A i \in DOMAIN v.v : IntsExact(v.v[i].value)
      [] OTHER -> TRUE

RECURSIVE NonFiniteToNone(_)
NonFiniteToNone(v) ==
    CASE v.py = "float" -> IF v.v.special \in {"nan", "inf", "-inf"} THEN PyNone ELSE v
      [] v.py = "list" -> PyList([i \in DOMAIN v.v |-> NonFiniteToNone(v.v[i])])
      [] v.py = "dict" ->
            PyDict([i \in DOMAIN v.v |->
                      [key |-> v.v[i].key, value |-> NonFiniteToNone(v.v[i].value)]])
      [] OTHER -> v

Returned(r) ==
    IF ~r.ok THEN [ok |-> FALSE, error |-> r.error, value |-> PyNone, calls |-> r.w.calls]
    ELSE IF to_python_raises(r.value)
         THEN [ok |-> FALSE, error |-> "ValueError", value |-> PyNone, calls |-> r.w.calls]
         ELSE [ok |-> TRUE, error |-> "", value |-> output_garden_wall(r.value),
               calls |-> r.w.calls]

\* The AST of the query asked, the runtime value of its input and the stack
\* the evaluation starts with.
Asked == parse(q_query)
Given == input_garden_wall(q_data, inst_lazy)
Initial == build_initial_stack(Given, builtins, inst_extras)
IsCallOf(ast, names) ==
    /\ ast.type = "fncall"
    /\ ast.fn.type = "reference"
    /\ ast.fn.name \in names

\* C1: in `a || b` with a truthy, and in `a && b` with a falsy, b is not
\* evaluated: the host calls made are those of a alone, and the result is
\* a's value.
C1_ShortCircuit ==
    (q_done /\ Initial.ok /\ IsCallOf(Asked, {"||", "&&"})) =>
        LET a == execute(Asked.args[1], Initial.stack, NewWorld)
        IN (a.ok /\ (truthy(a.value) <=> Asked.fn.name = "||")) =>
              q_outcome = Returned(a)

\* C4: the query `@` returns a value equal to its input, whatever the names
\* of the input's keys.
C4_Identity ==
    (q_done /\ Initial.ok /\ q_query = "@") =>
        /\ q_outcome.ok
        /\ py_eq(q_outcome.value, q_data)

\* C5: an operator, indexing or dot expression invokes the Function the root
\* frame binds to the operator's name, whatever names the input binds.
OperatorNames == {function_mappings[f] : f \in DOMAIN function_mappings} \cup {"index"}
C5_OperatorsNotShadowed ==
    (q_done /\ Initial.ok /\ IsCallOf(Asked, OperatorNames)) =>
        q_outcome = Returned(execute_fncall(
                        ValueExpression(Initial.stack[1][Asked.fn.name]),
                        Asked.args, Initial.stack, NewWorld))

\* C8: a built-in call whose arguments use the host extra `tick` makes the
\* calls of `tick` in increasing argument position.
IsTick(arg) == IsCallOf(arg, {"tick"})
EvaluatingBuiltins ==
    {"index", "match", "=~", "replace", "split", "stringjoin", "reduce", "+"}
C8_LeftToRight ==
    (q_done /\ q_outcome.ok /\ IsCallOf(Asked, EvaluatingBuiltins)) =>
        LET ticks == SelectSeq(Asked.args, IsTick)
            in_position == execute_in_order(ticks, [i \in DOMAIN ticks |-> i],
                                            Initial.stack, NewWorld)
        IN q_outcome.calls = in_position.w.calls

\* The host callable a query `f a1 .. an` calls, as the extras hold it.
IsHostCall ==
    /\ IsCallOf(Asked, HostCallNames)
    /\ Initial.ok
    /\ LET head == find_in_stack(Initial.stack, Asked.fn.name, FALSE)
       IN head.ok /\ head.value.type = "function" /\ head.value.value.kind = "py_func"
Callee == find_in_stack(Initial.stack, Asked.fn.name, FALSE).value.value.py_func
ArityFits ==
    /\ Len(Asked.args) >= Callee.args - Callee.defaults
    /\ Callee.varargs \/ Len(Asked.args) <= Callee.args
Invoked == \E i \in DOMAIN q_outcome.calls : q_outcome.calls[i].name = Callee.name
ArgumentsConvert ==
    \A i \in DOMAIN Asked.args :
        LET x == execute(Asked.args[i], Initial.stack, NewWorld)
        IN x.ok /\ ~to_python_raises(x.value)
HostArguments ==
    [i \in DOMAIN Asked.args |->
        to_python(execute(Asked.args[i], Initial.stack, NewWorld).value)]
HostResult == RuntimeValue_of(py_call(Callee, HostArguments), FALSE)

\* C9 as claimed: the callable is invoked iff the number of arguments fits
\* its arity, and a call that does not fit is a type error.
C9_InvokedIffArityFits ==
    (q_done /\ IsHostCall) =>
        /\ Invoked <=> ArityFits
        /\ ~ArityFits => (~q_outcome.ok /\ q_outcome.error = "MistQLTypeError")

\* C9: when every argument evaluates and converts to a host value, the
\* callable is invoked iff the number of arguments fits its arity; a call
\* that does not fit is a type error without an invocation, and one that
\* fits returns the host function's result, converted back.
C9_ArityEnforced ==
    (q_done /\ IsHostCall) =>
        /\ ~ArityFits =>
              /\ ~Invoked
              /\ ~q_outcome.ok
              /\ q_outcome.error = "MistQLTypeError"
        /\ (ArityFits /\ ArgumentsConvert) =>
              /\ q_outcome.calls = <<[name |-> Callee.name, args |-> HostArguments]>>
              /\ q_outcome.ok
              /\ q_outcome.value = to_python(HostResult)
        /\ (ArityFits /\ ~ArgumentsConvert) => (~Invoked /\ ~q_outcome.ok)
C9_Witness ==
    /\ q_done
    /\ q_query = "first_opt 1"
    /\ inst_extras = EffectsExtras
    /\ q_outcome.ok
    /\ q_outcome.calls = <<[name |-> "first_opt", args |-> <<PyFloat(Number(0, 1, 0))>>]>>

\* C10: an instance whose extras hold a callable with keyword-only parameters
\* or one that takes no argument answers every query with the error of the
\* wrapping: no root frame is built and nothing of the query is evaluated.
Unwrappable(f) == f.kwonlyargs > 0 \/ (~f.varargs /\ f.args = 0)
HasUnwrappable ==
    \E i \in DOMAIN inst_extras :
        ~IsRuntimeValue(inst_extras[i].value) /\ Unwrappable(inst_extras[i].value)
C10_RejectedAtWrapTime ==
    (q_done /\ HasUnwrappable) =>
        /\ ~Initial.ok
        /\ ~q_outcome.ok
        /\ q_outcome.error = "ValueError"
        /\ q_outcome.calls = <<>>
C10_Witness ==
    /\ q_done
    /\ q_query = "tick 1"
    /\ \E i \in DOMAIN inst_extras : inst_extras[i].key = "kw"
    /\ q_outcome.error = "ValueError"
    /\ q_outcome.calls = <<>>

\* The fold of a pipe: v0 is the value of the first stage, and the value of
\* stage i is the call of its head on its arguments and v(i-1), evaluated in
\* the caller's stack extended by one frame for v(i-1).
RECURSIVE PipeFold(_, _, _, _)
PipeFold(stages, i, stack, v) ==
    IF i > Len(stages) \/ ~v.ok THEN v
    ELSE PipeFold(stages, i + 1, stack,
                  execute(FnExpression(stages[i].fn,
                                       stages[i].args \o <<ValueExpression(v.value)>>),
                          Append(stack, make_stack_entry_from_runtime_value(v.value)),
                          v.w))

\* C2: a pipe whose later stages are calls returns what the fold returns.
C2_PipeIsFold ==
    (/\ q_done
     /\ Initial.ok
     /\ Asked.type = "pipe"
     /\ \A i \in 2..Len(Asked.stages) : Asked.stages[i].type = "fncall") =>
        q_outcome = Returned(PipeFold(Asked.stages, 2, Initial.stack,
                                      execute(Asked.stages[1], Initial.stack, NewWorld)))
C2_Witness ==
    /\ q_done
    /\ q_query = "@ | map (@ + 1) | index 0"
    /\ q_data = PyList(<<PyInt(1), PyInt(2)>>)
    /\ q_outcome.ok
    /\ q_outcome.value = PyFloat(Number(0, 2, 0))

\* C3: however often an instance has evaluated its cached ASTs, every AST in
\* the parse cache is still the AST the parser built for its query, and a
\* query returns what a first evaluation of a new AST on the same input
\* returns.
C3_EvaluationLeavesAst ==
    /\ \A i \in DOMAIN parse_cache : parse_cache[i].ast = parse(parse_cache[i].query)
    /\ q_done => q_outcome = Returned(execute_outer(parse(q_query), Given, inst_extras,
                                                    NewWorld))
C3_Witness ==
    /\ q_done
    /\ parse_hit
    /\ q_query = "@ | map (@ + 1) | index 0"
    /\ q_data = PyList(<<PyInt(1), PyInt(2)>>)
    /\ q_outcome.ok
    /\ Len(parse_cache) = parse_lru_cache_size

(***************************************************************************)
(* Properties of lazy values                                               *)
(***************************************************************************)
\* Python's == on what two operations returned: RuntimeValues by
\* RuntimeValue.eq, lists and dicts of them item by item; a RuntimeValue is
\* never equal to a list.
ResultEq(x, y) ==
    /\ x.kind = y.kind
    /\ CASE x.kind = "rv" -> eq(x.obj.rv, y.obj.rv)
         [] x.kind = "list" ->
              /\ Len(x.items) = Len(y.items)
              /\ \A k \in DOMAIN x.items : eq(x.items[k].rv, y.items[k].rv)
         [] x.kind = "dict" ->
              /\ Len(x.entries) = Len(y.entries)
              /\ \A k \in DOMAIN x.entries :
                    \E m \in DOMAIN y.entries :
                       /\ y.entries[m].key = x.entries[k].key
                       /\ eq(x.entries[k].value.rv, y.entries[m].value.rv)
         [] OTHER -> x = y

\* C7: whatever operations came before, an operation on the lazy value
\* returns a result equal to the one the eager value of the same host value
\* returns.
C7_LazyEqualsEager == ResultEq(lz_result, lz_eager)


\* The step made: which operation, on which key of the cache, for which
\* child of the host value.
IsChildRead(op) == op[1] \in {"access", "index"} /\ Len(op) = 2
CacheKey(op) == IF op[1] = "access" THEN StrKey(op[2]) ELSE IntKey(op[2])
HasChild(op) ==
    IF op[1] = "access" THEN lz_host.py = "dict" /\ DictHas(lz_host.v, op[2])
    ELSE lz_host.py = "list" /\ PyPosition(Len(lz_host.v), op[2]) # 0
ChildOf(op) ==
    IF op[1] = "access" THEN DictGet(lz_host.v, op[2])
    ELSE lz_host.v[PyPosition(Len(lz_host.v), op[2])]
IsCollection(host) == host.py \in {"list", "dict"}
\* The cache keeps every child it holds.
CacheKept ==
    \A k \in DOMAIN lz_subvalue_cache :
        /\ k \in DOMAIN lz_subvalue_cache'
        /\ lz_subvalue_cache'[k].key = lz_subvalue_cache[k].key
        /\ lz_subvalue_cache'[k].value.id = lz_subvalue_cache[k].value.id
\* A read of a child not yet in the cache converts that child and no other,
\* to a lazy value if it is a collection, and caches it.
FirstRead(op) ==
    /\ lz_converted' <= lz_converted + 1
    /\ ~lz_value.set => lz_converted' = lz_converted + 1
    /\ lz_result'.kind = "rv"
    /\ is_lazy(lz_result'.obj.rv) <=> IsCollection(ChildOf(op))
    /\ DictHas(lz_subvalue_cache', CacheKey(op))
    /\ DictGet(lz_subvalue_cache', CacheKey(op)).id = lz_result'.obj.id
\* A read of a cached child converts nothing and returns the cached object.
LaterRead(op) ==
    /\ lz_converted' = lz_converted
    /\ lz_result'.kind = "rv"
    /\ lz_result'.obj.id = DictGet(lz_subvalue_cache, CacheKey(op)).id
    /\ Len(lz_subvalue_cache') = Len(lz_subvalue_cache)

\* C29: len and keys convert no child; the first access(key) or index(i)
\* converts the child asked for and no other (to a lazy value when it is a
\* collection) and caches it; a later access or index with the same key or
\* index returns that very object and converts nothing.
C29_OnDemandCached ==
    [][/\ lz_op'[1] \in {"len", "keys"} =>
             lz_converted' = lz_converted
             /\ Len(lz_subvalue_cache') = Len(lz_subvalue_cache)
       /\ CacheKept
       /\ IsChildRead(lz_op') =>
             IF DictHas(lz_subvalue_cache, CacheKey(lz_op')) THEN LaterRead(lz_op')
             ELSE IF HasChild(lz_op') THEN FirstRead(lz_op')
             ELSE lz_converted' = lz_converted]_vars
\* A collection child was read twice with one key, and another child once:
\* two conversions, two cached children, the first one returned again.
C29_Witness ==
    /\ lz_converted = 2
    /\ Len(lz_subvalue_cache) = 2
    /\ IsChildRead(lz_op)
    /\ lz_result.kind = "rv"
    /\ lz_result.obj.id = 1
    /\ is_lazy(lz_result.obj.rv)

\* C30: once the whole value has been read, index(i) and access(key) convert
\* nothing more, and the producer is not run again.
C30_MaterializedReused ==
    [][lz_value.set =>
          /\ lz_value'.set
          /\ Len(lz_value'.items) = Len(lz_value.items)
          /\ IsChildRead(lz_op') => lz_converted' = lz_converted]_vars
(***************************************************************************)
(* Properties of calls and of the built-ins                                *)
(***************************************************************************)
\* C11: a call whose head evaluates to a value that is not a Function is a
\* type error and evaluates none of its arguments (the host calls made are
\* those of the head alone); a call whose head is a Function returns what
\* the Function returns on the unevaluated arguments and the caller's stack.
C11_HeadDecides ==
    (q_done /\ Initial.ok /\ Asked.type = "fncall") =>
        LET head == execute(Asked.fn, Initial.stack, NewWorld)
        IN /\ (head.ok /\ head.value.type # "function") =>
                 q_outcome = [ok |-> FALSE, error |-> "MistQLTypeError",
                              value |-> PyNone, calls |-> head.w.calls]
           /\ (head.ok /\ head.value.type = "function") =>
                 q_outcome = Returned(function_definition(head.value.value, Asked.args,
                                                          Initial.stack, head.w))
C11_Witness ==
    /\ q_done
    /\ q_query = "(tick 1) (tick 2)"
    /\ q_outcome.error = "MistQLTypeError"
    /\ q_outcome.calls = <<[name |-> "tick", args |-> <<PyFloat(Number(0, 1, 0))>>]>>

\* The built-in a query `f a1 .. an` calls, when the name f is bound to it.
CallsBuiltin(names) ==
    /\ IsCallOf(Asked, names)
    /\ Initial.ok
    /\ LET head == find_in_stack(Initial.stack, Asked.fn.name, FALSE)
       IN head.ok /\ head.value = BuiltinFunction(Asked.fn.name)
ArgumentValue(i) == execute(Asked.args[i], Initial.stack, NewWorld)
IsTypeError == ~q_outcome.ok /\ q_outcome.error = "MistQLTypeError"
IsReferenceError == ~q_outcome.ok /\ q_outcome.error = "MistQLReferenceError"

\* C12: `count` and `-` called with a number of arguments other than one
\* (two), `count` of a value that is not an Array and `-` on a value that is
\* not a Number are type errors; a name nothing binds is a reference error.
C12_ErrorKinds ==
    q_done =>
        /\ (CallsBuiltin({"count"}) /\ Len(Asked.args) # 1) => IsTypeError
        /\ (CallsBuiltin({"-"}) /\ Len(Asked.args) # 2) => IsTypeError
        /\ (/\ CallsBuiltin({"count"})
            /\ Len(Asked.args) = 1
            /\ ArgumentValue(1).ok
            /\ ArgumentValue(1).value.type # "array") => IsTypeError
        /\ (/\ CallsBuiltin({"-"})
            /\ Len(Asked.args) = 2
            /\ \A i \in 1..2 : ArgumentValue(i).ok
            /\ \E i \in 1..2 : ArgumentValue(i).value.type # "number") => IsTypeError
        /\ (/\ Initial.ok
            /\ Asked.type = "reference"
            /\ ~find_in_stack(Initial.stack, Asked.name, Asked.absolute).ok) =>
               IsReferenceError

\* The names under which the language defines a built-in.
DefinedBuiltinNames ==
    {".", "-/unary", "!/unary", "+", "-", "*", "/", "%", "==", "!=", ">", ">=", "<",
     "<=", "&&", "||", "=~", "if", "map", "filter", "find", "reduce", "mapvalues",
     "mapkeys", "filtervalues", "filterkeys", "count", "keys", "values", "entries",
     "fromentries", "groupby", "withindices", "reverse", "sort", "sortby", "flatten",
     "apply", "sequence", "string", "float", "regex", "match", "replace", "split",
     "stringjoin", "sum", "summarize", "index"}
RootBinds(names) ==
    LET root == Initial.stack[1]
    IN \A name \in names : name \in DOMAIN root /\ root[name].type = "function"

\* C13: the root frame of the initial stack binds every defined built-in
\* name, `flatten` and `sum` among them, to a Function, and a call of one of
\* these names is not a reference error.
C13_RegistrationComplete ==
    Initial.ok =>
        /\ RootBinds(DefinedBuiltinNames)
        /\ (q_done /\ IsCallOf(Asked, DefinedBuiltinNames)) => ~IsReferenceError

(***************************************************************************)
(* Properties of sorting, ordering and grouping                            *)
(***************************************************************************)
\* The items of the input list and what the first argument of the call (the
\* key expression f) evaluates to with item i as focus.
Items_xs == Value(Given)
KeyOf(i) ==
    execute(Asked.args[1], add_runtime_value_to_stack(Items_xs[i], Initial.stack),
            NewWorld)
TickOf(value) == [name |-> "tick", args |-> <<to_python(value)>>]

\* C14: `sortby f xs`, when it returns, returns a permutation of xs in which
\* the keys f(item) do not decrease and items of equal key keep the order
\* they have in xs; f is evaluated once per item, in the order of xs, with
\* the item as focus.
C14_SortbyStable ==
    (q_done /\ IsCallOf(Asked, {"sortby"}) /\ q_outcome.ok) =>
        LET n == Len(Items_xs)
            out == q_outcome.value.v
        IN /\ Len(out) = n
           /\ \E p \in Permutations(1..n) :
                /\ \A j \in 1..n : out[j] = to_python(Items_xs[p[j]])
                /\ \A i, j \in 1..n :
                     i < j => /\ compare(KeyOf(p[i]).value, KeyOf(p[j]).value) <= 0
                              /\ compare(KeyOf(p[i]).value, KeyOf(p[j]).value) = 0
                                    => p[i] < p[j]
           /\ IsCallOf(Asked.args[1], {"tick"}) =>
                q_outcome.calls = [i \in 1..n |-> TickOf(KeyOf(i).value)]
C14_Witness ==
    /\ q_done
    /\ q_query = "sortby (tick k) @"
    /\ q_data = PyList(<<D(<<"k", "n">>, <<PyInt(1), PyInt(0)>>),
                         D(<<"k", "n">>, <<PyInt(0), PyInt(0)>>),
                         D(<<"k", "n">>, <<PyInt(0), PyInt(1)>>)>>)
    /\ q_outcome.ok
    /\ q_outcome.value =
          to_python(RuntimeValue_of(
              PyList(<<D(<<"k", "n">>, <<PyInt(0), PyInt(0)>>),
                       D(<<"k", "n">>, <<PyInt(0), PyInt(1)>>),
                       D(<<"k", "n">>, <<PyInt(1), PyInt(0)>>)>>), FALSE))
    /\ Len(q_outcome.calls) = 3

\* The keys sort and sortby compare: the items themselves, or f(item).
SortKeys ==
    IF Asked.fn.name = "sort" THEN Items_xs
    ELSE [i \in DOMAIN Items_xs |-> KeyOf(i).value]
KeysEvaluate ==
    Asked.fn.name = "sortby" => \A i \in DOMAIN Items_xs : KeyOf(i).ok
Unordered(ks) ==
    \/ \E i \in DOMAIN ks : ~comparable(ks[i])
    \/ \E i, j \in DOMAIN ks : ks[i].type # ks[j].type
Failed == q_done /\ ~q_outcome.ok

\* C15: `<`, `<=`, `>`, `>=` on two values of different variants, or of a
\* variant other than Boolean, Number and String, fail, and on two values of
\* one of these variants they tell the order (false < true); `sort` fails
\* when the array, and `sortby` when the list of keys, holds a value of
\* another variant or values of two variants.
C15_OrderingDefined ==
    (q_done /\ Given.type = "array") =>
        /\ (IsCallOf(Asked, {"<", "<=", ">", ">="}) /\ Len(Items_xs) >= 2) =>
              LET a == Items_xs[1]
                  b == Items_xs[2]
              IN IF Unordered(<<a, b>>) THEN Failed
                 ELSE /\ q_outcome.ok
                      /\ q_outcome.value.py = "bool"
                      /\ (a.type = "boolean" /\ Asked.fn.name = "<") =>
                            (q_outcome.value.v <=> (~a.value /\ b.value))
        /\ (IsCallOf(Asked, {"sort", "sortby"}) /\ KeysEvaluate /\ Unordered(SortKeys)) =>
              Failed

(***************************************************************************)
(* Properties of indexing, equality and branching                          *)
(***************************************************************************)
\* What the query is asked on: the operand x and the bounds of `x[..]`, as
\* the arguments of the lowered call `index i x` or `index a b x` evaluate.
Evaluated(i, stack) == execute(Asked.args[i], stack, NewWorld)
Returns(value) == q_outcome.ok /\ q_outcome.value = value
Length(x) == IF x.type = "string" THEN Len(x.value) ELSE Len(Value(x))
ElementAt(x, p) ==
    IF x.type = "string" THEN PyStr(SubSeq(x.value, p + 1, p + 1))
    ELSE to_python(Value(x)[p + 1])
IsSequence(x) == x.type \in {"array", "string"}
IsIntegral(i) == i.type = "number" /\ i.value.half = 0
FromEnd(k, n) == IF k < 0 THEN n + k ELSE k

SingleIndexOf(x, i) ==
    /\ (IsSequence(x) /\ i.type = "number" /\ ~IsIntegral(i)) => Failed
    /\ (IsSequence(x) /\ IsIntegral(i)) =>
          LET n == Length(x)
              j == FromEnd(i.value.whole, n)
          IN Returns(IF 0 <= j /\ j < n THEN ElementAt(x, j) ELSE PyNone)
    /\ (x.type = "object" /\ i.type = "string") =>
          LET entries == Value(x)
          IN Returns(IF \E e \in DOMAIN entries : entries[e].key = i.value
                     THEN to_python(
                            entries[CHOOSE e \in DOMAIN entries :
                                        entries[e].key = i.value].value)
                     ELSE PyNone)
    /\ x.type = "null" => Returns(PyNone)

\* C16: `x[i]` on an Array or String x of length n fails for a fractional
\* Number i, and for an integral i is the element at i, or at n + i when
\* i < 0, when that position is within 0..n-1 and Null otherwise; on an
\* Object x and String i it is the value of key i, Null when x has no such
\* key; on a Null x it is Null.
C16_SingleIndex ==
    (q_done /\ IsCallOf(Asked, {"index"}) /\ Len(Asked.args) = 2) =>
        LET stack == Initial.stack
        IN SingleIndexOf(Evaluated(2, stack).value, Evaluated(1, stack).value)
C16_Witness ==
    /\ q_done
    /\ q_query = "@.x[@.i]"
    /\ q_data = D(<<"i", "j", "x">>,
                  <<PyInt(-1), PyNone, PyList(<<PyInt(5), PyInt(6)>>)>>)
    /\ Returns(PyFloat(Number(0, 6, 0)))

\* The elements of x at the positions p with from <= p < to within 0..n-1.
Positions(from, to, n) == {p \in 0..(n - 1) : from <= p /\ p < to}
RECURSIVE Ascending(_)
Ascending(S) ==
    IF S = {} THEN <<>>
    ELSE LET least == CHOOSE p \in S : \A q \in S : p <= q
         IN <<least>> \o Ascending(S \ {least})
ElementsAt(x, ps) ==
    IF x.type = "string"
    THEN PyStr(JoinText([k \in DOMAIN ps |-> SubSeq(x.value, ps[k] + 1, ps[k] + 1)], ""))
    ELSE PyList([k \in DOMAIN ps |-> to_python(Value(x)[ps[k] + 1])])
IsBound(a) == a.type = "null" \/ IsIntegral(a)
SliceOf(x, a, b) ==
    /\ (IsSequence(x) /\ IsBound(a) /\ IsBound(b)) =>
          LET n == Length(x)
              from == IF a.type = "null" THEN 0 ELSE FromEnd(a.value.whole, n)
              to == IF b.type = "null" THEN n ELSE FromEnd(b.value.whole, n)
          IN Returns(ElementsAt(x, Ascending(Positions(from, to, n))))
    /\ (~IsSequence(x) \/ ~IsBound(a) \/ ~IsBound(b)) => Failed

\* C17: `x[a:b]` on an Array or String x of length n, with a and b integers
\* or Null, is the elements of x at the positions p in 0..n-1 with
\* a' <= p < b', in order, where a' is 0 for a Null a, b' is n for a Null b,
\* and a negative bound k counts as n + k; it fails on any other x, a or b.
C17_Slice ==
    (q_done /\ IsCallOf(Asked, {"index"}) /\ Len(Asked.args) = 3) =>
        LET stack == Initial.stack
        IN SliceOf(Evaluated(3, stack).value, Evaluated(1, stack).value,
                   Evaluated(2, stack).value)

\* Deep structural equality of two values that hold no Function.
KeySet(x) == {Value(x)[e].key : e \in DOMAIN Value(x)}
ValueOfKey(x, key) == Value(x)[CHOOSE e \in DOMAIN Value(x) : Value(x)[e].key = key].value
RECURSIVE DeepEqual(_, _)
DeepEqual(a, b) ==
    /\ a.type = b.type
    /\ CASE a.type = "array" ->
               /\ Len(Value(a)) = Len(Value(b))
               /\ \A k \in DOMAIN Value(a) : DeepEqual(Value(a)[k], Value(b)[k])
          [] a.type = "object" ->
               /\ KeySet(a) = KeySet(b)
               /\ \A key \in KeySet(a) : DeepEqual(ValueOfKey(a, key), ValueOfKey(b, key))
          [] OTHER -> a.value = b.value
\* Two names of the initial stack are the same callable when they are one name.
SameCallable == Asked.args[1].name = Asked.args[2].name
EqualityOf(a, b) ==
    LET same == IF a.type = "function" /\ b.type = "function" THEN SameCallable
                ELSE DeepEqual(a, b)
    IN /\ eq(a, a)
       /\ eq(a, b) = eq(b, a)
       /\ Asked.fn.name = "==" => Returns(PyBool(same))
       /\ Asked.fn.name = "!=" => Returns(PyBool(~same))

\* C18: `a == b` is true exactly when a and b are of one variant and equal
\* in depth (Arrays: same length and equal items pairwise; Objects: same
\* set of keys with equal values, whatever the order of the keys; Functions:
\* one and the same callable), `a != b` is its negation, and the relation
\* is reflexive and symmetric.
C18_DeepEquality ==
    (q_done /\ IsCallOf(Asked, {"==", "!="})) =>
        LET stack == Initial.stack
        IN EqualityOf(Evaluated(1, stack).value, Evaluated(2, stack).value)
C18_Witness ==
    /\ q_done
    /\ q_query = "@.a == @.b"
    /\ q_data = D(<<"a", "b">>, <<D(<<"a", "b">>, <<PyInt(0), PyInt(1)>>),
                                  D(<<"b", "a">>, <<PyInt(1), PyInt(0)>>)>>)
    /\ Returns(PyBool(TRUE))

\* What `if c t e` comes to when c evaluates to cond on the given stack.
BranchOf(cond, stack) ==
    LET chosen == IF truthy(cond.value) THEN 2 ELSE 3
        made == Len(q_outcome.calls) - Len(cond.w.calls)
    IN cond.ok =>
         /\ q_outcome = Returned(execute(Asked.args[chosen], stack, cond.w))
         /\ SubSeq(q_outcome.calls, 1, Len(cond.w.calls)) = cond.w.calls
         /\ q_query = "if (tick @.a) (tick 1) (tick 2)" =>
               /\ cond.w.calls = <<TickOf(cond.value)>>
               /\ q_outcome.calls =
                     <<TickOf(cond.value), TickOf(Num(IF truthy(cond.value) THEN 1 ELSE 2))>>
               /\ Returns(PyFloat(Number(0, IF truthy(cond.value) THEN 1 ELSE 2, 0)))
         /\ (q_query = "if @.a (tick 1) nosuch" /\ truthy(cond.value)) =>
               Returns(PyFloat(Number(0, 1, 0))) /\ made = 1
         /\ (q_query = "if @.a nosuch (tick 2)" /\ ~truthy(cond.value)) =>
               Returns(PyFloat(Number(0, 2, 0))) /\ made = 1

\* C19: `if c t e` evaluates c once and then exactly one of t and e, t when
\* c is truthy and e otherwise; the outcome and the host calls are those of
\* c followed by the chosen branch alone, so an error or a host call of the
\* other branch does not happen.
C19_IfBranches ==
    (q_done /\ IsCallOf(Asked, {"if"}) /\ Len(Asked.args) = 3) =>
        LET stack == Initial.stack
        IN BranchOf(Evaluated(1, stack), stack)
C19_Witness ==
    /\ q_done
    /\ q_query = "if @.a (tick 1) nosuch"
    /\ q_data = D(<<"a", "b">>, <<PyList(<<PyInt(0)>>), PyNone>>)
    /\ Returns(PyFloat(Number(0, 1, 0)))
    /\ q_outcome.calls = <<[name |-> "tick", args |-> <<PyFloat(Number(0, 1, 0))>>]>>
(***************************************************************************)
(* Properties of grouping                                                  *)
(***************************************************************************)
\* The key strings f(item).to_string() of the items of xs, on the given stack.
KeyStrings(stack) ==
    [i \in DOMAIN Items_xs |->
        to_string(execute(Asked.args[1],
                          add_runtime_value_to_stack(Items_xs[i], stack),
                          NewWorld).value)]
FirstWith(ks, key) == CHOOSE i \in DOMAIN ks : ks[i] = key /\ \A j \in 1..(i - 1) : ks[j] # key
RECURSIVE SizesSum(_)
SizesSum(groups) ==
    IF groups = <<>> THEN 0 ELSE Len(Head(groups).value.v) + SizesSum(Tail(groups))
GroupsOf(ks, out) ==
    /\ \A a, b \in DOMAIN out : out[a].key = out[b].key => a = b
    /\ {out[a].key : a \in DOMAIN out} = Range(ks)
    /\ \A a, b \in DOMAIN out : a < b => FirstWith(ks, out[a].key) < FirstWith(ks, out[b].key)
    /\ \A a \in DOMAIN out :
          LET members == Ascending({i \in DOMAIN ks : ks[i] = out[a].key})
          IN out[a].value = PyList([m \in DOMAIN members |-> to_python(Items_xs[members[m]])])
    /\ SizesSum(out) = Len(Items_xs)

\* C20: `groupby f xs`, when it returns, returns an Object whose keys are
\* the distinct strings f(item).to_string(), in the order in which they
\* first occur in xs, each with the Array of the items of xs of that key, in
\* the order of xs; the sizes of the groups add up to the length of xs.
C20_GroupbyPartition ==
    (q_done /\ IsCallOf(Asked, {"groupby"}) /\ q_outcome.ok) =>
        /\ q_outcome.value.py = "dict"
        /\ GroupsOf(KeyStrings(Initial.stack), q_outcome.value.v)
C20_Witness ==
    /\ q_done
    /\ q_query = "groupby k @"
    /\ q_data = PyList(<<D(<<"k", "n">>, <<PyInt(1), PyInt(0)>>),
                         D(<<"k", "n">>, <<PyInt(0), PyInt(0)>>),
                         D(<<"k", "n">>, <<PyStr("0"), PyInt(0)>>)>>)
    /\ q_outcome.ok
    /\ DictKeys(q_outcome.value.v) = <<"1", "0">>
    /\ Len(q_outcome.value.v[2].value.v) = 2
(***************************************************************************)
(* Properties of sequence, replace, export and pipes                       *)
(***************************************************************************)
\* The 1-based index tuples i1 < .. < ik over n items with predicate j
\* truthy on item ij, and their listing in lexicographic order.
Increasing(t) == \A i, j \in DOMAIN t : i < j => t[i] < t[j]
LexLess(s, t) ==
    \E j \in DOMAIN s : s[j] < t[j] /\ \A i \in 1..(j - 1) : s[i] = t[i]
RECURSIVE LexSorted(_)
LexSorted(S) ==
    IF S = {} THEN <<>>
    ELSE LET least == CHOOSE t \in S : \A u \in S \ {t} : LexLess(t, u)
         IN <<least>> \o LexSorted(S \ {least})
TruthyOn(j, item, stack) ==
    truthy(execute(Asked.args[j], add_runtime_value_to_stack(item, stack), NewWorld).value)
SequencesOf(items, k, stack) ==
    LET truth == [j \in 1..k |-> [i \in DOMAIN items |-> TruthyOn(j, items[i], stack)]]
        tuples == LexSorted({t \in [1..k -> DOMAIN items] :
                               Increasing(t) /\ \A j \in 1..k : truth[j][t[j]]})
    IN Returns(PyList([m \in DOMAIN tuples |->
                         PyList([j \in 1..k |-> to_python(items[tuples[m][j]])])]))

\* C21: `sequence p1 .. pk xs`, when it returns, returns one Array
\* [xs[i1], .., xs[ik]] for each index tuple i1 < .. < ik with pj truthy on
\* xs[ij] for every j, none missing and none twice, in lexicographic order
\* of the tuples; it is empty when there is no such tuple.
C21_SequenceTuples ==
    (/\ q_done
     /\ IsCallOf(Asked, {"sequence"})
     /\ Len(Asked.args) >= 2
     /\ Given.type = "array") =>
        SequencesOf(Value(Given), Len(Asked.args) - 1, Initial.stack)
C21_Witness ==
    /\ q_done
    /\ q_query = "sequence a b @"
    /\ q_data = PyList(<<D(<<"a", "b">>, <<PyInt(1), PyStr("")>>),
                         D(<<"a", "b">>, <<PyInt(1), PyStr("y")>>),
                         D(<<"a", "b">>, <<PyInt(0), PyStr("y")>>)>>)
    /\ q_outcome.ok
    /\ Len(q_outcome.value.v) = 3

\* The pattern, replacement and target of a `replace` query, and the
\* positions of the target at which the pattern occurs: a String pattern
\* literally, a Regex pattern with `.` standing for any character.
Field(name) == DictGet(q_data.v, name).v
IsRegexQuery == q_query # "replace @.p @.r @.t"
IsGlobalQuery ==
    q_query \in {"replace (regex @.p \"g\") @.r @.t", "replace (regex @.p \"gi\") @.r @.t"}
OccursAt(p, t, pos) ==
    /\ pos + Len(p) - 1 <= Len(t)
    /\ IF IsRegexQuery
       THEN \A k \in 1..Len(p) :
              SubSeq(p, k, k) \in {".", SubSeq(t, pos + k - 1, pos + k - 1)}
       ELSE SubSeq(t, pos, pos + Len(p) - 1) = p
Occurrences(p, t) == {pos \in 1..(Len(t) + 1) : OccursAt(p, t, pos)}
Least(S) == CHOOSE x \in S : \A y \in S : x <= y
FirstReplaced(occ, p, r, t) ==
    SubSeq(t, 1, Least(occ) - 1) \o r \o SubSeq(t, Least(occ) + Len(p), Len(t))
RECURSIVE AllReplaced(_, _, _, _, _)
AllReplaced(occ, p, r, t, from) ==
    LET ahead == {pos \in occ : pos >= from}
        next == Least(ahead)
    IN IF ahead = {} THEN SubSeq(t, from, Len(t))
       ELSE IF Len(p) > 0
            THEN SubSeq(t, from, next - 1) \o r \o AllReplaced(occ, p, r, t, next + Len(p))
       ELSE IF next > Len(t) THEN SubSeq(t, from, Len(t)) \o r
       ELSE SubSeq(t, from, next - 1) \o r \o SubSeq(t, next, next)
            \o AllReplaced(occ, p, r, t, next + 1)
ReplacedIn(occ, p, r, t) ==
    Returns(PyStr(IF occ = {} THEN t
                  ELSE IF IsGlobalQuery THEN AllReplaced(occ, p, r, t, 1)
                  ELSE FirstReplaced(occ, p, r, t)))

\* C22: `replace pat repl target` with a String pattern, or a Regex without
\* the `global` modifier, replaces the leftmost occurrence alone and keeps
\* the rest of the target; with a Regex with the `global` modifier it
\* replaces every match, found from left to right without overlap; a target
\* without a match is returned as it is.
C22_ReplaceFirstOrAll ==
    (q_done /\ IsCallOf(Asked, {"replace"}) /\ DictGet(q_data.v, "t").py = "str") =>
        ReplacedIn(Occurrences(Field("p"), Field("t")), Field("p"), Field("r"), Field("t"))
C22_Witness ==
    /\ q_done
    /\ q_query = "replace (regex @.p \"g\") @.r @.t"
    /\ q_data = D(<<"p", "r", "t">>, <<PyStr("a."), PyStr("x"), PyStr("abab")>>)
    /\ Returns(PyStr("xx"))

\* A value built from Null, Booleans, Numbers, Strings, Arrays and Objects alone.
RECURSIVE JsonShaped(_)
JsonShaped(rv) ==
    CASE rv.type \in {"null", "boolean", "number", "string"} -> TRUE
      [] rv.type = "array" -> \A i \in DOMAIN Value(rv) : JsonShaped(Value(rv)[i])
      [] rv.type = "object" -> \A i \in DOMAIN Value(rv) : JsonShaped(Value(rv)[i].value)
      [] OTHER -> FALSE
ExportOf(result) ==
    result.ok =>
        /\ q_outcome.ok <=> JsonShaped(result.value)
        /\ ~JsonShaped(result.value) => q_outcome.value = PyNone /\ q_outcome.error # ""

\* C23: a query whose result is built from Null, Booleans, Numbers, Strings,
\* Arrays and Objects alone returns a host value, and a query whose result
\* is, or holds at any depth, a Function or a Regex fails with an error and
\* returns nothing.
C23_ExportJsonOnly ==
    q_done => ExportOf(execute(Asked, Initial.stack, NewWorld))
C23_Witness ==
    /\ q_done
    /\ q_query = "{a: [regex \"a\"]}"
    /\ ~q_outcome.ok
    /\ q_outcome.error = "ValueError"

\* The stages after the first that are not calls.
NotCalls(stages) == {i \in 2..Len(stages) : stages[i].type # "fncall"}
First(indices) == CHOOSE i \in indices : \A j \in indices : i <= j
\* The stages before stage i, evaluated as the pipe they form.
Before(stages, i, stack) ==
    IF i = 2 THEN execute(stages[1], stack, NewWorld)
    ELSE execute(PipeExpression(SubSeq(stages, 1, i - 1)), stack, NewWorld)
\* The pipe gives no result: it fails as the stages before the one that is
\* not a call do, or, if they succeed, with the internal error; the host
\* calls made are those of the stages before.
FailsAtStage(earlier) ==
    /\ ~q_outcome.ok
    /\ q_outcome.value = PyNone
    /\ q_outcome.calls = earlier.w.calls
    /\ q_outcome.error = IF earlier.ok THEN "OpenAnIssueIfYouGetThisError"
                         ELSE earlier.error

\* C28: a pipe with a stage after the first that is not a call fails with
\* the internal error when the first such stage is reached: the stages
\* before it have been evaluated (their host calls were made, their own
\* failure comes first), no later stage is, and the pipe returns nothing.
C28_StageNotCall ==
    (q_done /\ Asked.type = "pipe" /\ NotCalls(Asked.stages) # {}) =>
        FailsAtStage(Before(Asked.stages, First(NotCalls(Asked.stages)), Initial.stack))
\* Two call stages ran and called the host before the stage that is not a
\* call was reached.
C28_Witness ==
    /\ q_done
    /\ q_query = "@ | first2 1 | first2 2 | @"
    /\ q_outcome.error = "OpenAnIssueIfYouGetThisError"
    /\ Len(q_outcome.calls) = 2

(***************************************************************************)
(* Claims about the scope stack                                            *)
(***************************************************************************)
\* One and the same runtime value, frame, stack.
RECURSIVE SameValue(_, _)
SameValue(a, b) ==
    /\ a.type = b.type
    /\ CASE a.type = "array" ->
               /\ Len(Value(a)) = Len(Value(b))
               /\ \A k \in DOMAIN Value(a) : SameValue(Value(a)[k], Value(b)[k])
          [] a.type = "object" ->
               /\ DictKeys(Value(a)) = DictKeys(Value(b))
               /\ \A k \in DOMAIN Value(a) :
                      SameValue(Value(a)[k].value, Value(b)[k].value)
          [] OTHER -> a.value = b.value
SameFrame(f, g) ==
    /\ DOMAIN f = DOMAIN g
    /\ \A name \in DOMAIN f : SameValue(f[name], g[name])
SameStack(s, t) ==
    /\ Len(s) = Len(t)
    /\ \A i \in DOMAIN s : SameFrame(s[i], t[i])

\* The frames of `stack` that bind `name`, among those a lookup considers.
Binding(stack, name, absolute) ==
    {i \in DOMAIN stack : (absolute => i = 1) /\ name \in DOMAIN stack[i]}
Innermost(frames) == CHOOSE i \in frames : \A j \in frames : j <= i
Resolves(stack, name, absolute, found) ==
    LET frames == Binding(stack, name, absolute)
    IN IF frames = {} THEN ~found.ok
       ELSE found.ok /\ SameValue(found.value, stack[Innermost(frames)][name])
\* A step of Lookup: neither a push nor a return.
IsLookup == Len(st_callers') = Len(st_callers) /\ st_lookup' # NoLookup

\* C24: a lookup returns the binding of the name in the innermost frame that
\* has it, or with absolute=true the binding of the root frame whatever the
\* other frames bind; a name no considered frame binds is a reference error;
\* and the lookup leaves the stack as it was.
C24_Lookup ==
    [][IsLookup =>
          /\ SameStack(st_stack', st_stack)
          /\ Resolves(st_stack, st_lookup'.name, st_lookup'.absolute, st_found')]_vars
\* A name bound in the root frame and, differently, in two frames above it
\* has been looked up in the whole stack.
C24_Witness ==
    /\ Len(st_stack) = MaxDepth
    /\ ~st_lookup.absolute
    /\ {1, MaxDepth - 1, MaxDepth} \subseteq Binding(st_stack, st_lookup.name, FALSE)
    /\ st_found.ok
    /\ ~SameValue(st_found.value, st_stack[1][st_lookup.name])
    /\ SameValue(st_found.value, st_stack[MaxDepth][st_lookup.name])
    /\ ~SameValue(st_found.value, st_stack[MaxDepth - 1][st_lookup.name])

\* The frame made for `focus` binds `@` to it and each of its keys to the
\* value of the key.
BindsFocus(frame, focus) ==
    /\ "@" \in DOMAIN frame
    /\ SameValue(frame["@"], focus)
    /\ \A key \in Range(keys_of(focus)) :
          key \in DOMAIN frame /\ SameValue(frame[key], access(focus, key))
\* The focus of the innermost frame of the stack under observation.
CurrentFocus ==
    IF st_callers = <<>> THEN input_garden_wall(q_data, inst_lazy)
    ELSE st_callers[Len(st_callers)].focus

\* C25: every frame made for a focus value (the one of the input and the
\* ones pushed since) binds `@` to that value and each key of an Object
\* focus to its value, and `@` resolves to the current focus.
C25_FocusBound ==
    st_stack # <<>> =>
        /\ BindsFocus(st_stack[3], input_garden_wall(q_data, inst_lazy))
        /\ \A i \in DOMAIN st_callers :
              BindsFocus(st_stack[Len(st_callers[i].before) + 1], st_callers[i].focus)
        /\ Resolves(st_stack, "@", FALSE, [ok |-> TRUE, value |-> CurrentFocus])

\* The stack handed to the sub-expression of caller i.
CalleeStack(callers, stack, i) ==
    IF i < Len(callers) THEN callers[i + 1].before ELSE stack
\* Each caller holds the stack it had before its push, and the stack it made
\* is that stack with one frame more.
PushKept(callers, stack) ==
    \A i \in DOMAIN callers :
        LET before == callers[i].before
            made == CalleeStack(callers, stack, i)
        IN /\ SameStack(callers[i].held, before)
           /\ Len(made) = Len(before) + 1
           /\ SameStack(SubSeq(made, 1, Len(before)), before)
HasReturned == Len(st_callers') < Len(st_callers)

\* C26: add_runtime_value_to_stack returns the caller's frames and one new
\* innermost frame and leaves the caller's stack as it was, in length and in
\* every binding; when the sub-expression returns, the caller goes on in the
\* stack it had before the push.
C26_PushLeavesCaller ==
    [][/\ PushKept(st_callers', st_stack')
       /\ HasReturned => SameStack(st_stack', st_callers[Len(st_callers)].before)]_vars
\* Two pushes are pending, and names were looked up since.
C26_Witness ==
    /\ Len(st_callers) = 2
    /\ Len(st_stack) = Len(st_callers[1].before) + 2
    /\ st_found.ok

\* The three frames build_initial_stack makes of the input and the extras.
ExtraNames == Range(DictKeys(inst_extras))
RootNames == Range(builtins) \cup ExtraNames
\* An extra is bound to the Function made of it: a host callable to a
\* wrapped Python function, a Function value to itself.
BindsExtra(root, extra) ==
    IF IsRuntimeValue(extra.value) THEN SameValue(root[extra.key], extra.value)
    ELSE root[extra.key].value.kind = "py_func"
         /\ root[extra.key].value.py_func = extra.value
RootFrame(root) ==
    /\ DOMAIN root = RootNames
    /\ \A name \in RootNames : root[name].type = "function"
    /\ \A name \in Range(builtins) \ ExtraNames : root[name] = BuiltinFunction(name)
    /\ \A i \in DOMAIN inst_extras : BindsExtra(root, inst_extras[i])
\* `$` is an Object of `@` and the names of the root frame, each with the
\* root frame's value.
DollarFrame(frame, root) ==
    /\ DOMAIN frame = {"$"}
    /\ frame["$"].type = "object"
    /\ Range(keys_of(frame["$"])) = {"@"} \cup RootNames
    /\ \A name \in RootNames : SameValue(access(frame["$"], name), root[name])
InitialFrames(stack, data) ==
    /\ Len(stack) >= 3
    /\ st_callers = <<>> => Len(stack) = 3
    /\ RootFrame(stack[1])
    /\ DollarFrame(stack[2], stack[1])
    /\ SameFrame(stack[3], make_stack_entry_from_runtime_value(data))

\* C27, as claimed: three frames, and `$.@` is the input while `$.name` is
\* the root frame's Function for every built-in and extra name.
C27_DollarAtIsInput ==
    st_stack # <<>> =>
        LET data == input_garden_wall(q_data, inst_lazy)
        IN /\ InitialFrames(st_stack, data)
           /\ SameValue(access(st_stack[2]["$"], "@"), data)
\* C27, as the code has it: three frames (the built-ins and the extras as
\* Functions; `$` alone, an Object of `@` and every root name; the frame of
\* the input), `$.name` is the root frame's Function for every built-in and
\* extra name, and `$.@` is the input unless an extra is named `@`.
C27_InitialStack ==
    st_stack # <<>> =>
        LET data == input_garden_wall(q_data, inst_lazy)
        IN /\ InitialFrames(st_stack, data)
           /\ "@" \notin ExtraNames => SameValue(access(st_stack[2]["$"], "@"), data)
\* The initial stack of an Object input, with extras of which one takes the
\* name of a built-in.
C27_Witness ==
    /\ Len(st_stack) = 3
    /\ q_data.py = "dict"
    /\ inst_extras # <<>>
    /\ ExtraNames \cap Range(builtins) # {}
    /\ st_stack[1]["count"] # BuiltinFunction("count")
====
